---- MODULE Spec2Model ----
(***************************************************************************)
(* Smart trash-bin dashboard (src/javascript.js, TongSampahApp): the       *)
(* serial line ingestion and state-reconciliation path, the simulated      *)
(* commands and the serial session that feeds them.                        *)
(*                                                                         *)
(* Text is modelled character by character: a JavaScript string is a       *)
(* sequence of one-character strings, so that trimming, splitting and      *)
(* number parsing are computed as the code computes them.                  *)
(***************************************************************************)
EXTENDS Integers, Sequences, FiniteSets, Bags

(***************************************************************************)
(* JavaScript values                                                       *)
(***************************************************************************)

\* Number.NaN, the result of parseInt on a string with no leading digits.
\* A 32-bit value no parsed input of the model reaches.
NaN == -2147483647

\* null in a number or timestamp field (lastActivity: null).
Null == -2147483646

\* null in an object-handle field (port, reader, writer).
NoHandle == "null"

WhiteSpace == {" ", "\t", "\r", "\n"}

Digits == <<"0", "1", "2", "3", "4", "5", "6", "7", "8", "9">>

IsDigit(c) == \E i \in 1..10 : Digits[i] = c

DigitVal(c) == (CHOOSE i \in 1..10 : Digits[i] = c) - 1

\* String.prototype.startsWith / the ^literal part of a regular expression.
StartsWith(s, p) == Len(s) >= Len(p) /\ SubSeq(s, 1, Len(p)) = p

\* String.prototype.includes, for a one-character needle.
Includes(s, c) == \E i \in 1..Len(s) : s[i] = c

\* String.prototype.trim.
Trim(s) ==
    LET keep == {i \in 1..Len(s) : s[i] \notin WhiteSpace}
    IN  IF keep = {} THEN <<>>
        ELSE LET lo == CHOOSE i \in keep : \A j \in keep : i <= j
                 hi == CHOOSE i \in keep : \A j \in keep : i >= j
             IN  SubSeq(s, lo, hi)

\* String.prototype.split, for a one-character separator: the pieces between
\* consecutive separators, in order ("" splits into one empty piece).
Split(s, sep) ==
    LET cuts == {0, Len(s) + 1} \cup {i \in 1..Len(s) : s[i] = sep}
        nth(k) == CHOOSE p \in cuts : Cardinality({q \in cuts : q < p}) = k
    IN  [k \in 1..(Cardinality(cuts) - 1) |->
            SubSeq(s, nth(k - 1) + 1, nth(k) - 1)]

\* The length of the longest prefix of s, from index from on, made of digits.
DigitRun(s, from) ==
    LET stop == {i \in from..Len(s) : ~IsDigit(s[i])}
    IN  IF stop = {} THEN Len(s) - from + 1
        ELSE (CHOOSE i \in stop : \A j \in stop : i <= j) - from

RECURSIVE DecimalValue(_)
DecimalValue(ds) ==
    IF ds = <<>> THEN 0
    ELSE 10 * DecimalValue(SubSeq(ds, 1, Len(ds) - 1)) + DigitVal(ds[Len(ds)])

\* parseInt(string) with no radix: leading white space is skipped, one
\* optional sign is read, then the longest run of decimal digits; NaN when
\* that run is empty.  (No input of the model carries a 0x prefix.)
parseInt(s) ==
    LET body  == {i \in 1..Len(s) : s[i] \notin WhiteSpace}
        start == IF body = {} THEN Len(s) + 1
                 ELSE CHOOSE i \in body : \A j \in body : i <= j
        signed == start <= Len(s) /\ s[start] \in {"+", "-"}
        first == IF signed THEN start + 1 ELSE start
        n     == DigitRun(s, first)
        v     == DecimalValue(SubSeq(s, first, first + n - 1))
    IN  IF n = 0 THEN NaN
        ELSE IF signed /\ s[start] = "-" THEN 0 - v ELSE v

\* x || 0 on a number: NaN and 0 are falsy.
OrZero(x) == IF x = NaN \/ x = 0 THEN 0 ELSE x

\* Math.max and Math.min: NaN if either argument is NaN.
MathMax(a, b) == IF a = NaN \/ b = NaN THEN NaN ELSE IF a >= b THEN a ELSE b

MathMin(a, b) == IF a = NaN \/ b = NaN THEN NaN ELSE IF a <= b THEN a ELSE b

\* Math.round(num / den) for den > 0: the nearest integer, halves upwards.
RoundDiv(num, den) == (2 * num + den) \div (2 * den)

(***************************************************************************)
(* The calendar behind new Date(timestamp): the clock counts days from     *)
(* 1 January of EpochYear, in months of DaysPerMonth days.                 *)
(***************************************************************************)
EpochYear == 2024

DaysPerMonth == 30

MonthsPerYear == 12

getFullYear(t) == EpochYear + t \div (DaysPerMonth * MonthsPerYear)

\* Date.prototype.getMonth: 0..11.
getMonth(t) == (t \div DaysPerMonth) % MonthsPerYear

\* Date.prototype.getDate: 1..DaysPerMonth.
getDate(t) == (t % DaysPerMonth) + 1

\* Math.ceil(a / b) for a >= 0, b > 0.
CeilDiv(a, b) == (a + b - 1) \div b

(***************************************************************************)
(* Utils.calculateCapacity                                                 *)
(***************************************************************************)
maxDistance == 50

minDistance == 0

\* Faulty variant: neither the distance nor the result is clamped.
calculateCapacity_unclamped(distance) ==
    IF distance = NaN THEN NaN
    ELSE RoundDiv(100 * (maxDistance - minDistance) - 100 * (distance - minDistance),
                  maxDistance - minDistance)

calculateCapacity(distance) ==
    LET clamped == MathMax(minDistance, MathMin(maxDistance, distance))
    IN  IF clamped = NaN THEN NaN
        ELSE LET span == maxDistance - minDistance
                 \* 100 - ((clamped - min) / span) * 100, as a fraction of span
                 num  == 100 * span - 100 * (clamped - minDistance)
                 capacity == RoundDiv(MathMax(0, MathMin(100 * span, num)), span)
             IN  capacity

\* calculateCapacity of the legacy handler (style.js): the distance is not
\* clamped; the rounded result is.
Legacy_calculateCapacity(distance) ==
    IF distance = NaN THEN NaN
    ELSE LET span == maxDistance - minDistance
             num  == 100 * span - 100 * (distance - minDistance)
         IN  MathMax(0, MathMin(100, RoundDiv(num, span)))

(***************************************************************************)
(* Words of the wire format                                                *)
(***************************************************************************)
BUKA == <<"B", "U", "K", "A">>

TUTUP == <<"T", "U", "T", "U", "P">>

STATUS == <<"S", "T", "A", "T", "U", "S">>

PrefixStatus == STATUS \o <<":">>

PrefixDistance == <<"D", "I", "S", "T", "A", "N", "C", "E", ":">>

PrefixUsage == <<"U", "S", "A", "G", "E", ":">>

PrefixReady == <<"S", "Y", "S", "T", "E", "M", "_", "R", "E", "A", "D", "Y">>

PrefixCommand == <<"C", "M", "D", "_", "R", "E", "C", "E", "I", "V", "E", "D", ":">>

\* The characters "." of a regular expression does not match.
LineTerminators == {"\n", "\r"}

\* /^prefix(.+)$/ : the prefix, then one or more characters up to the end of
\* the input, none of them a line terminator.
MatchesRest(line, prefix) ==
    /\ StartsWith(line, prefix)
    /\ Len(line) > Len(prefix)
    /\ \A i \in (Len(prefix) + 1)..Len(line) : line[i] \notin LineTerminators

RestOf(line, prefix) == SubSeq(line, Len(prefix) + 1, Len(line))

\* /^prefix(\d+)/ : the prefix, then one or more digits; whatever follows the
\* digits is not looked at.
MatchesDigits(line, prefix) ==
    StartsWith(line, prefix) /\ DigitRun(line, Len(prefix) + 1) > 0

DigitsOf(line, prefix) ==
    SubSeq(line, Len(prefix) + 1, Len(prefix) + DigitRun(line, Len(prefix) + 1))

(***************************************************************************)
(* DataProcessor.parseSerialLine, DataProcessor.processSerialChunk         *)
(***************************************************************************)
\* Faulty variant: the prefix patterns are tried before the comma test.
parseSerialLine_prefixFirst(line) ==
    LET parts == Split(line, ",")
    IN  IF MatchesRest(line, PrefixStatus)
        THEN [type |-> "status", value |-> RestOf(line, PrefixStatus), raw |-> line]
        ELSE IF MatchesDigits(line, PrefixDistance)
        THEN [type |-> "distance", value |-> DigitsOf(line, PrefixDistance), raw |-> line]
        ELSE IF MatchesDigits(line, PrefixUsage)
        THEN [type |-> "usage", value |-> DigitsOf(line, PrefixUsage), raw |-> line]
        ELSE IF StartsWith(line, PrefixReady)
        THEN [type |-> "ready", value |-> <<"true">>, raw |-> line]
        ELSE IF MatchesRest(line, PrefixCommand)
        THEN [type |-> "command", value |-> RestOf(line, PrefixCommand), raw |-> line]
        ELSE IF Includes(line, ",") /\ Len(parts) >= 5
        THEN [type |-> "full",
              status |-> parts[1],
              capacity |-> OrZero(parseInt(parts[2])),
              distance |-> OrZero(parseInt(parts[3])),
              dailyUsage |-> OrZero(parseInt(parts[4])),
              totalUsage |-> OrZero(parseInt(parts[5])),
              raw |-> line]
        ELSE [type |-> "message", value |-> line, raw |-> line]

parseSerialLine(line) ==
    LET parts == Split(line, ",")
    IN  IF Includes(line, ",") /\ Len(parts) >= 5
        THEN [type |-> "full",
              status |-> parts[1],
              capacity |-> OrZero(parseInt(parts[2])),
              distance |-> OrZero(parseInt(parts[3])),
              dailyUsage |-> OrZero(parseInt(parts[4])),
              totalUsage |-> OrZero(parseInt(parts[5])),
              raw |-> line]
        ELSE IF MatchesRest(line, PrefixStatus)
        THEN [type |-> "status", value |-> RestOf(line, PrefixStatus), raw |-> line]
        ELSE IF MatchesDigits(line, PrefixDistance)
        THEN [type |-> "distance", value |-> DigitsOf(line, PrefixDistance), raw |-> line]
        ELSE IF MatchesDigits(line, PrefixUsage)
        THEN [type |-> "usage", value |-> DigitsOf(line, PrefixUsage), raw |-> line]
        ELSE IF StartsWith(line, PrefixReady)
        \* no capture group: match[1] || true is true, printed as "true"
        THEN [type |-> "ready", value |-> <<"true">>, raw |-> line]
        ELSE IF MatchesRest(line, PrefixCommand)
        THEN [type |-> "command", value |-> RestOf(line, PrefixCommand), raw |-> line]
        ELSE [type |-> "message", value |-> line, raw |-> line]

\* The subsequence of s whose elements satisfy the test, in order.
SelectIdx(s, keep) ==
    LET nth(k) == CHOOSE i \in keep : Cardinality({j \in keep : j < i}) = k - 1
    IN  [k \in 1..Cardinality(keep) |-> s[nth(k)]]

\* Faulty variant: the pieces of the chunk are not trimmed one by one.
processSerialChunk_untrimmed(chunk) ==
    LET lines == Split(Trim(chunk), "\n")
        keep  == {i \in 1..Len(lines) : lines[i] # <<>>}
        kept  == SelectIdx(lines, keep)
    IN  [i \in 1..Len(kept) |-> parseSerialLine(kept[i])]

processSerialChunk(chunk) ==
    LET lines   == Split(Trim(chunk), "\n")
        trimmed == [i \in 1..Len(lines) |-> Trim(lines[i])]
        keep    == {i \in 1..Len(trimmed) : trimmed[i] # <<>>}
        kept    == SelectIdx(trimmed, keep)
    IN  [i \in 1..Len(kept) |-> parseSerialLine(kept[i])]

(***************************************************************************)
(* The application's mutable world: a record st with the fields of the     *)
(* source's state object (db, serial), the UI manager's scheduling fields  *)
(* (ui) and the browser's localStorage under the app's prefix (storage).   *)
(* Every handler below is a function from st to the st it leaves behind;   *)
(* t is the value Date.now() returns while the handler runs.               *)
(***************************************************************************)

\* Storage.set(key, value): localStorage[prefix + key] = JSON.stringify(value).
\* The values these handlers store (log entries, history samples) hold
\* strings and parsed numbers, which JSON writes and reads back unchanged.
StorageSet(st, key, value) ==
    [st EXCEPT !.storage =
        [k \in (DOMAIN st.storage) \cup {key} |->
            IF k = key THEN value ELSE st.storage[k]]]

(***************************************************************************)
(* Logger.log                                                              *)
(***************************************************************************)
maxLogs == 500

\* Faulty variant: slice(-maxLogs), the newest entry is the one dropped.
Logger_log_dropsNewest(st, message, type, t) ==
    LET logEntry == [timestamp |-> t, message |-> message, type |-> type]
        added    == <<logEntry>> \o st.db.logs
        logs     == IF Len(added) > maxLogs
                    THEN SubSeq(added, Len(added) - maxLogs + 1, Len(added))
                    ELSE added
        st1      == [st EXCEPT !.db.logs = logs]
    IN  IF Len(logs) % 20 = 0 THEN StorageSet(st1, "logs", logs) ELSE st1

Logger_log(st, message, type, t) ==
    LET logEntry == [timestamp |-> t, message |-> message, type |-> type]
        added    == <<logEntry>> \o st.db.logs
        logs     == IF Len(added) > maxLogs THEN SubSeq(added, 1, maxLogs) ELSE added
        st1      == [st EXCEPT !.db.logs = logs]
    IN  IF Len(logs) % 20 = 0 THEN StorageSet(st1, "logs", logs) ELSE st1

(***************************************************************************)
(* HistoryManager                                                          *)
(***************************************************************************)
maxHistorySize == 1000

historyKeep == 500

monthsKept == 12

\* An object used as a map (usageHistory.weekly, usageHistory.monthly) is a
\* sequence of [key, bucket] entries in insertion order, the order
\* Object.keys returns.
HasKey(obj, key) == \E i \in 1..Len(obj) : obj[i].key = key

IndexOfKey(obj, key) == CHOOSE i \in 1..Len(obj) : obj[i].key = key

newBucket == [total |-> 0, count |-> 0, max |-> 0, min |-> 100, timestamps |-> <<>>]

\* obj[key] created when absent, then total, count, max, min and timestamps
\* updated with the sample.
foldSample(obj, key, timestamp, capacity) ==
    LET withKey == IF HasKey(obj, key) THEN obj
                   ELSE Append(obj, [key |-> key, bucket |-> newBucket])
        i == IndexOfKey(withKey, key)
        b == withKey[i].bucket
    IN  [withKey EXCEPT ![i].bucket =
            [total |-> b.total + capacity,
             count |-> b.count + 1,
             max |-> MathMax(b.max, capacity),
             min |-> MathMin(b.min, capacity),
             timestamps |-> Append(b.timestamps, timestamp)]]

\* Faulty variant: the first 12 month keys stay, the later ones are deleted.
aggregateHistory_keepsOldest(st, timestamp, capacity) ==
    LET weekKey  == <<getFullYear(timestamp), "W", CeilDiv(getDate(timestamp), 7)>>
        monthKey == <<getFullYear(timestamp), getMonth(timestamp) + 1>>
        weekly   == foldSample(st.db.usageHistory.weekly, weekKey, timestamp, capacity)
        monthly  == foldSample(st.db.usageHistory.monthly, monthKey, timestamp, capacity)
        cleaned  == IF Len(monthly) > monthsKept
                    THEN SubSeq(monthly, 1, monthsKept)
                    ELSE monthly
    IN  [st EXCEPT !.db.usageHistory.weekly = weekly,
                   !.db.usageHistory.monthly = cleaned]

aggregateHistory(st, timestamp, capacity) ==
    LET weekKey  == <<getFullYear(timestamp), "W", CeilDiv(getDate(timestamp), 7)>>
        monthKey == <<getFullYear(timestamp), getMonth(timestamp) + 1>>
        weekly   == foldSample(st.db.usageHistory.weekly, weekKey, timestamp, capacity)
        monthly  == foldSample(st.db.usageHistory.monthly, monthKey, timestamp, capacity)
        \* months.slice(0, -12) are deleted: the last 12 keys stay
        cleaned  == IF Len(monthly) > monthsKept
                    THEN SubSeq(monthly, Len(monthly) - monthsKept + 1, Len(monthly))
                    ELSE monthly
    IN  [st EXCEPT !.db.usageHistory.weekly = weekly,
                   !.db.usageHistory.monthly = cleaned]

\* Faulty variant: slice(0, 500), the oldest samples stay.
addToHistory_keepsOldest(st, capacity, t) ==
    LET entry  == [timestamp |-> t, capacity |-> capacity]
        pushed == Append(st.db.usageHistory.daily, entry)
        daily  == IF Len(pushed) > maxHistorySize
                  THEN SubSeq(pushed, 1, historyKeep)
                  ELSE pushed
        st1    == aggregateHistory([st EXCEPT !.db.usageHistory.daily = daily], t, capacity)
    IN  IF Len(daily) % 10 = 0
        THEN StorageSet(st1, "history", st1.db.usageHistory)
        ELSE st1

addToHistory(st, capacity, t) ==
    LET entry  == [timestamp |-> t, capacity |-> capacity]
        pushed == Append(st.db.usageHistory.daily, entry)
        daily  == IF Len(pushed) > maxHistorySize
                  THEN SubSeq(pushed, Len(pushed) - historyKeep + 1, Len(pushed))
                  ELSE pushed
        st1    == aggregateHistory([st EXCEPT !.db.usageHistory.daily = daily], t, capacity)
    IN  IF Len(daily) % 10 = 0
        THEN StorageSet(st1, "history", st1.db.usageHistory)
        ELSE st1

(***************************************************************************)
(* UI.scheduleUpdate: one animation frame pending at a time                *)
(***************************************************************************)
\* Faulty variant: every call asks for an animation frame of its own.
scheduleUpdate_everyCall(st, type) ==
    [st EXCEPT !.ui.updateQueue = @ \cup {type},
               !.ui.pendingAnimationFrame = TRUE,
               !.ui.frames = @ + 1]

\* frames counts the callbacks handed to requestAnimationFrame and not yet run.
scheduleUpdate(st, type) ==
    LET st1 == [st EXCEPT !.ui.updateQueue = @ \cup {type}]
    IN  IF ~st1.ui.pendingAnimationFrame
        THEN [st1 EXCEPT !.ui.pendingAnimationFrame = TRUE, !.ui.frames = @ + 1]
        ELSE st1

\* UI.updateAlerts; alerted is alertBox.dataset.alerted.
updateAlerts(st, t) ==
    IF st.db.capacity >= st.db.settings.alertThreshold
    THEN IF ~st.ui.alerted
         THEN Logger_log([st EXCEPT !.ui.alerted = TRUE],
                         <<"Peringatan: Kapasitas ", st.db.capacity, "% mencapai threshold">>,
                         "warning", t)
         ELSE st
    ELSE [st EXCEPT !.ui.alerted = FALSE]

\* UI.processUpdateQueue: of the update methods only updateAlerts (run by
\* 'all' through updateAll, and by 'alerts') writes anything but the page.
processUpdateQueue(st, t) ==
    LET st1 == IF "all" \in st.ui.updateQueue \/ "alerts" \in st.ui.updateQueue
               THEN updateAlerts(st, t)
               ELSE st
    IN  [st1 EXCEPT !.ui.updateQueue = {}]

(***************************************************************************)
(* DataProcessor: folding parsed updates into state.db                     *)
(***************************************************************************)
\* Faulty variant: closing the bin takes the counted opening back.
handleStatusChange_uncountsClose(st, newStatus, oldStatus, t) ==
    IF newStatus = BUKA /\ oldStatus = TUTUP
    THEN Logger_log([st EXCEPT !.db.lastActivity = t,
                               !.db.dailyUsage = @ + 1,
                               !.db.totalUsage = @ + 1],
                    <<"Tong dibuka oleh Arduino">>, "success", t)
    ELSE IF newStatus = TUTUP /\ oldStatus = BUKA
    THEN Logger_log([st EXCEPT !.db.dailyUsage = @ - 1,
                               !.db.totalUsage = @ - 1],
                    <<"Tong ditutup oleh Arduino">>, "success", t)
    ELSE st

\* Faulty variant: every change to BUKA counts, whatever the status was.
handleStatusChange_anyOpen(st, newStatus, oldStatus, t) ==
    IF newStatus = BUKA
    THEN Logger_log([st EXCEPT !.db.lastActivity = t,
                               !.db.dailyUsage = @ + 1,
                               !.db.totalUsage = @ + 1],
                    <<"Tong dibuka oleh Arduino">>, "success", t)
    ELSE IF newStatus = TUTUP /\ oldStatus = BUKA
    THEN Logger_log(st, <<"Tong ditutup oleh Arduino">>, "success", t)
    ELSE st

handleStatusChange(st, newStatus, oldStatus, t) ==
    IF newStatus = BUKA /\ oldStatus = TUTUP
    THEN Logger_log([st EXCEPT !.db.lastActivity = t,
                               !.db.dailyUsage = @ + 1,
                               !.db.totalUsage = @ + 1],
                    <<"Tong dibuka oleh Arduino">>, "success", t)
    ELSE IF newStatus = TUTUP /\ oldStatus = BUKA
    THEN Logger_log(st, <<"Tong ditutup oleh Arduino">>, "success", t)
    ELSE st

\* Faulty variant: the status is not compared with the old one, so every BUKA report
\* counts as an opening.
applyUpdate_countsEveryOpen(st, data, t) ==
    IF data.type # "full" THEN st
    ELSE LET st1 == [st EXCEPT !.db.status = data.status,
                               !.db.capacity = data.capacity,
                               !.db.distance = data.distance,
                               !.db.dailyUsage = data.dailyUsage,
                               !.db.totalUsage = data.totalUsage,
                               !.db.lastUpdate = t]
             st2 == IF data.status = BUKA
                    THEN Logger_log([st1 EXCEPT !.db.lastActivity = t,
                                                !.db.dailyUsage = @ + 1,
                                                !.db.totalUsage = @ + 1],
                                    <<"Tong dibuka oleh Arduino">>, "success", t)
                    ELSE st1
         IN  addToHistory(st2, data.capacity, t)

applyUpdate(st, data, t) ==
    IF data.type # "full" THEN st
    ELSE LET oldStatus == st.db.status
             st1 == [st EXCEPT !.db.status = data.status,
                               !.db.capacity = data.capacity,
                               !.db.distance = data.distance,
                               !.db.dailyUsage = data.dailyUsage,
                               !.db.totalUsage = data.totalUsage,
                               !.db.lastUpdate = t]
             st2 == IF oldStatus # data.status
                    THEN handleStatusChange(st1, data.status, oldStatus, t)
                    ELSE st1
         IN  addToHistory(st2, data.capacity, t)

\* Faulty variant: a status partial has the side effects of a status change.
applyPartialUpdate_symmetric(st, data, t) ==
    LET st1 == IF data.type = "status"
               THEN IF data.value = BUKA /\ st.db.status = TUTUP
                    THEN [st EXCEPT !.db.status = data.value,
                                    !.db.lastActivity = t,
                                    !.db.dailyUsage = @ + 1,
                                    !.db.totalUsage = @ + 1]
                    ELSE [st EXCEPT !.db.status = data.value]
               ELSE IF data.type = "distance"
               THEN [st EXCEPT !.db.distance = parseInt(data.value),
                               !.db.capacity = calculateCapacity(parseInt(data.value))]
               ELSE IF data.type = "usage"
               THEN [st EXCEPT !.db.dailyUsage = parseInt(data.value)]
               ELSE st
    IN  [st1 EXCEPT !.db.lastUpdate = t]

applyPartialUpdate(st, data, t) ==
    LET st1 == IF data.type = "status"
               THEN [st EXCEPT !.db.status = data.value]
               ELSE IF data.type = "distance"
               THEN [st EXCEPT !.db.distance = parseInt(data.value),
                               !.db.capacity = calculateCapacity(parseInt(data.value))]
               ELSE IF data.type = "usage"
               THEN [st EXCEPT !.db.dailyUsage = parseInt(data.value)]
               ELSE st
    IN  [st1 EXCEPT !.db.lastUpdate = t]

\* Faulty variant: the partial updates are applied last to first.
RECURSIVE applyPartials_reversed(_, _, _)
applyPartials_reversed(st, updates, t) ==
    IF updates = <<>> THEN st
    ELSE applyPartials_reversed(
            applyPartialUpdate(st, updates[Len(updates)], t),
            SubSeq(updates, 1, Len(updates) - 1), t)

RECURSIVE applyPartials(_, _, _)
applyPartials(st, updates, t) ==
    IF updates = <<>> THEN st
    ELSE applyPartials(applyPartialUpdate(st, Head(updates), t), Tail(updates), t)

\* updates.filter(u => u.type === 'full')
fullUpdates(updates) ==
    SelectIdx(updates, {i \in 1..Len(updates) : updates[i].type = "full"})

\* Faulty variant: every full report of the batch is applied, in order.
RECURSIVE applyFulls(_, _, _)
applyFulls(st, fulls, t) ==
    IF fulls = <<>> THEN st
    ELSE applyFulls(applyUpdate(st, Head(fulls), t), Tail(fulls), t)

batchUpdate_everyFull(st, updates, t) ==
    LET fulls == fullUpdates(updates)
    IN  IF Len(fulls) > 0
        THEN applyFulls(st, fulls, t)
        ELSE applyPartials(st, updates, t)

\* Faulty variant: the first full report of the batch is applied.
batchUpdate_firstFull(st, updates, t) ==
    LET fulls == fullUpdates(updates)
    IN  IF Len(fulls) > 0
        THEN applyUpdate(st, fulls[1], t)
        ELSE applyPartials(st, updates, t)

batchUpdate(st, updates, t) ==
    LET fulls == fullUpdates(updates)
    IN  IF Len(fulls) > 0
        THEN applyUpdate(st, fulls[Len(fulls)], t)
        ELSE applyPartials(st, updates, t)

\* The value batchUpdate returns.
batchUpdateResult(updates) == Len(updates) > 0

\* Faulty variant: only 'message' updates are logged.
RECURSIVE logMessages_messagesOnly(_, _, _)
logMessages_messagesOnly(st, updates, t) ==
    IF updates = <<>> THEN st
    ELSE LET u == Head(updates)
             st1 == IF u.type = "message"
                    THEN Logger_log(st, <<"Arduino: ">> \o u.value, "arduino", t)
                    ELSE st
         IN  logMessages_messagesOnly(st1, Tail(updates), t)

\* updates.forEach: every 'message' and 'ready' update is logged, in order.
RECURSIVE logMessages(_, _, _)
logMessages(st, updates, t) ==
    IF updates = <<>> THEN st
    ELSE LET u == Head(updates)
             st1 == IF u.type = "message" \/ u.type = "ready"
                    THEN Logger_log(st, <<"Arduino: ">> \o u.value, "arduino", t)
                    ELSE st
         IN  logMessages(st1, Tail(updates), t)

(***************************************************************************)
(* The device's lines and the chunks the reader delivers                   *)
(***************************************************************************)
\* BUKA,45,27,3,120
LineOpen ==
    <<"B", "U", "K", "A", ",", "4", "5", ",", "2", "7", ",", "3", ",",
    "1", "2", "0">>

\* TUTUP,45,27,3,120
LineClosed ==
    <<"T", "U", "T", "U", "P", ",", "4", "5", ",", "2", "7", ",", "3",
    ",", "1", "2", "0">>

\* TUTUP,80,10,2,5
LineClosedLow ==
    <<"T", "U", "T", "U", "P", ",", "8", "0", ",", "1", "0", ",", "2",
    ",", "5">>

\* BUKA,150,27,3,120
LineOver ==
    <<"B", "U", "K", "A", ",", "1", "5", "0", ",", "2", "7", ",", "3",
    ",", "1", "2", "0">>

\* STATUS,notanumber,27,3,120
LineMalformed ==
    <<"S", "T", "A", "T", "U", "S", ",", "n", "o", "t", "a", "n", "u",
    "m", "b", "e", "r", ",", "2", "7", ",", "3", ",", "1", "2", "0">>

\* STATUS:BUKA
LineStatusOpen ==
    <<"S", "T", "A", "T", "U", "S", ":", "B", "U", "K", "A">>

\* STATUS:TUTUP
LineStatusClosed ==
    <<"S", "T", "A", "T", "U", "S", ":", "T", "U", "T", "U", "P">>

\* DISTANCE:10
LineDistance10 ==
    <<"D", "I", "S", "T", "A", "N", "C", "E", ":", "1", "0">>

\* DISTANCE:80
LineDistance80 ==
    <<"D", "I", "S", "T", "A", "N", "C", "E", ":", "8", "0">>

\* USAGE:2
LineUsage2 ==
    <<"U", "S", "A", "G", "E", ":", "2">>

\* USAGE:7
LineUsage7 ==
    <<"U", "S", "A", "G", "E", ":", "7">>

\* SYSTEM_READY
LineReady ==
    <<"S", "Y", "S", "T", "E", "M", "_", "R", "E", "A", "D", "Y">>

\* Sensor OK
LineMessage ==
    <<"S", "e", "n", "s", "o", "r", " ", "O", "K">>

\* CMD_RECEIVED:BUKA
LineCommand ==
    <<"C", "M", "D", "_", "R", "E", "C", "E", "I", "V", "E", "D", ":",
    "B", "U", "K", "A">>

LF == <<"\n">>

CRLF == <<"\r", "\n">>

Lines ==
    {LineOpen, LineClosed, LineClosedLow, LineOver,
     LineMalformed, LineStatusOpen, LineStatusClosed, LineDistance10,
     LineDistance80, LineUsage2, LineUsage7, LineReady,
     LineMessage, LineCommand}

\* One line per chunk, and the chunks of several lines that set full
\* reports, partial reports and messages side by side; a chunk may be empty,
\* blank, or end its lines with CR LF.
Chunks ==
    {l \o LF : l \in Lines}
    \cup {LineOpen \o LF \o LineClosedLow \o LF,
          LineClosedLow \o LF \o LineOpen \o LF,
          LineOpen \o LF \o LineDistance10 \o LF,
          LineUsage7 \o LF \o LineStatusClosed \o LF \o LineOpen \o LF,
          LineStatusOpen \o LF \o LineDistance10 \o LF \o LineUsage7 \o LF,
          LineDistance10 \o LF \o LineDistance80 \o LF,
          LineDistance80 \o LF \o LineDistance10 \o LF,
          LineStatusOpen \o LF \o LineStatusClosed \o LF,
          LineStatusClosed \o LF \o LineStatusOpen \o LF,
          LineUsage2 \o LF \o LineUsage7 \o LF,
          LineMessage \o LF \o LineReady \o LF,
          LineMessage \o LF \o LineOpen \o LF,
          LineReady \o LF \o LineStatusOpen \o LF,
          CRLF \o LineOpen \o CRLF,
          LF}

\* The streams of newline-terminated lines whose division into chunks is
\* compared: one line of each kind, and two lines.
Streams ==
    {LineOpen \o LF, LineStatusOpen \o LF, LineDistance80 \o LF, LineUsage7 \o LF,
     LineMessage \o LF, LineOpen \o LF \o LineClosedLow \o LF,
     LineStatusOpen \o LF \o LineUsage7 \o LF}

\* A stream delivered in two chunks: cut after its first k characters.
StreamHead(stream, k) == SubSeq(stream, 1, k)

StreamTail(stream, k) == SubSeq(stream, k + 1, Len(stream))

StreamChunks ==
    UNION {UNION {{StreamHead(s, k), StreamTail(s, k), s} : k \in 1..(Len(s) - 1)} :
              s \in Streams}

\* processSerialChunk on every chunk of the model, computed once.
parsedChunk == [c \in Chunks \cup StreamChunks |-> processSerialChunk(c)]

\* Faulty variant: the chunk is logged, its updates are left for later.
processData_deferred(st, data, t) == logMessages(st, parsedChunk[data], t)

\* SerialManager.processData
processData(st, data, t) ==
    LET updates == parsedChunk[data]
        st1 == batchUpdate(st, updates, t)
        st2 == IF batchUpdateResult(updates) THEN scheduleUpdate(st1, "all") ELSE st1
    IN  logMessages(st2, updates, t)

(***************************************************************************)
(* UI: commands issued while no device is connected                        *)
(***************************************************************************)
\* Math.floor(Math.random() * 10) * (Math.random() > 0.5 ? 1 : -1) lies in
\* -9..9; the largest and the smallest moves each way, and no move.
ChangeAmounts == {0 - 9, 0 - 1, 0, 1, 9}

generateSimulatedData(st, changeAmount, t) ==
    LET distance == MathMax(0, MathMin(50, st.db.distance + changeAmount))
    IN  [st EXCEPT !.db.distance = distance,
                   !.db.capacity = calculateCapacity(distance),
                   !.db.lastUpdate = t]

simulateCommand(st, command, changeAmount, t) ==
    LET st1 == IF command = BUKA
               THEN Logger_log([st EXCEPT !.db.status = BUKA,
                                          !.db.lastActivity = t,
                                          !.db.dailyUsage = @ + 1,
                                          !.db.totalUsage = @ + 1],
                               <<"Tong dibuka (simulasi)">>, "success", t)
               ELSE IF command = TUTUP
               THEN Logger_log([st EXCEPT !.db.status = TUTUP],
                               <<"Tong ditutup (simulasi)">>, "success", t)
               ELSE IF command = STATUS
               THEN Logger_log(generateSimulatedData(st, changeAmount, t),
                               <<"Status diperbarui (simulasi)">>, "info", t)
               ELSE st
    IN  scheduleUpdate(st1, "all")

(***************************************************************************)
(* SerialManager: each async function is cut at its awaits; a suspended    *)
(* call is an entry of the bag tasks, resumed when its promise settles.    *)
(***************************************************************************)
Task(fn, at, arg) == [fn |-> fn, at |-> at, arg |-> arg]

Spawn(ts, task) == ts (+) SetToBag({task})

Finish(ts, task) == ts (-) SetToBag({task})

serialPort == "port"

textReader == "reader"

textWriter == "writer"

defaultBaud == 115200

\* connect() up to its first await; FALSE is returned when a connection is
\* under way or established.
connectGuard(st) == ~(st.serial.isConnecting \/ st.serial.isConnected)

connectBegin(st, t) ==
    Logger_log([st EXCEPT !.serial.isConnecting = TRUE],
               <<"Memulai koneksi Arduino...">>, "info", t)

\* connect() after navigator.serial.requestPort() resolved, up to port.open.
connectGotPort(st) == [st EXCEPT !.serial.port = serialPort]

\* connect() after port.open() resolved, up to the call of startReading.
connectOpened(st, t) ==
    LET baudRate == IF st.db.settings.connectionBaud = 0 THEN defaultBaud
                    ELSE st.db.settings.connectionBaud
    IN  Logger_log([st EXCEPT !.serial.writer = textWriter,
                              !.serial.reader = textReader,
                              !.serial.isConnected = TRUE,
                              !.serial.isConnecting = FALSE,
                              !.serial.baudRate = baudRate],
                   <<"Arduino terhubung di ", baudRate, " baud">>, "success", t)

\* startReading(): the loop condition, tested before every read.
readingGuard(st) == st.serial.isConnected /\ st.serial.reader # NoHandle

\* send(command) up to its await; FALSE is returned when not connected.
sendGuard(st) == st.serial.isConnected /\ st.serial.writer # NoHandle

\* send(command) after writer.write resolved.
sendWritten(st, command, t) ==
    Logger_log(st, <<"Command dikirim: ">> \o command, "info", t)

(***************************************************************************)
(* State                                                                   *)
(***************************************************************************)
VARIABLES
    state,   \* the application's world st (db, serial, ui, storage)
    tasks,   \* the suspended async calls and pending timers
    now,     \* the value Date.now() returns to the handler that runs next
    lastOp   \* the handler that ran last, with its input

vars == <<state, tasks, now, lastOp>>

Commands == {BUKA, TUTUP, STATUS}

defaultSettings ==
    [autoRefresh |-> FALSE,
     autoRefreshInterval |-> 5000,
     alertThreshold |-> 80,
     connectionBaud |-> defaultBaud,
     chartType |-> "day",
     autoScrollLogs |-> TRUE]

\* state.db as init() creates it at time t when localStorage is empty.
defaultDb(t) ==
    [capacity |-> 0,
     distance |-> 0,
     status |-> TUTUP,
     dailyUsage |-> 0,
     totalUsage |-> 0,
     lastActivity |-> Null,
     lastUpdate |-> t,
     alertTriggered |-> FALSE,
     settings |-> defaultSettings,
     logs |-> <<>>,
     usageHistory |-> [daily |-> <<>>, weekly |-> <<>>, monthly |-> <<>>]]

\* The world once the page has loaded: init() has built state.db, UI.init
\* has drawn the page, and the first log entry is written.
loadedState(t) ==
    Logger_log([db |-> defaultDb(t),
                serial |-> [port |-> NoHandle, reader |-> NoHandle, writer |-> NoHandle,
                            isConnected |-> FALSE, isConnecting |-> FALSE,
                            baudRate |-> defaultBaud],
                ui |-> [updateQueue |-> {}, pendingAnimationFrame |-> FALSE,
                        frames |-> 0, alerted |-> FALSE],
                storage |-> <<>>],
               <<"Sistem monitoring tong sampah dimulai">>, "success", t)

Init ==
    /\ state = loadedState(0)
    /\ tasks = EmptyBag
    /\ now = 1
    /\ lastOp = [op |-> "init", arg |-> <<>>]

(***************************************************************************)
(* Actions.  Every handler reads the clock once and the next handler runs  *)
(* at a later clock value.                                                 *)
(***************************************************************************)
MaxTime == 6

Ran(op, arg) ==
    /\ now < MaxTime
    /\ now' = now + 1
    /\ lastOp' = [op |-> op, arg |-> arg]

\* The user asks for a connection: SerialManager.connect() up to requestPort.
Connect ==
    /\ IF connectGuard(state)
       THEN /\ state' = connectBegin(state, now)
            /\ tasks' = Spawn(tasks, Task("connect", "requestPort", <<>>))
       ELSE UNCHANGED <<state, tasks>>
    /\ Ran("connect", <<>>)

\* The user picks the port: connect() goes on to port.open.
RequestPortResolved ==
    /\ BagIn(Task("connect", "requestPort", <<>>), tasks)
    /\ state' = connectGotPort(state)
    /\ tasks' = Spawn(Finish(tasks, Task("connect", "requestPort", <<>>)),
                      Task("connect", "open", <<>>))
    /\ Ran("connect.requestPort", <<>>)

\* The port opens: connect() sets the streams up, starts the read loop, which
\* runs up to its first reader.read(), and arms the 500 ms STATUS timer.
PortOpenResolved ==
    /\ BagIn(Task("connect", "open", <<>>), tasks)
    /\ state' = connectOpened(state, now)
    /\ LET rest  == Finish(tasks, Task("connect", "open", <<>>))
           timed == Spawn(rest, Task("timer", "sendStatus", STATUS))
       IN  tasks' = IF readingGuard(state')
                    THEN Spawn(timed, Task("startReading", "read", <<>>))
                    ELSE timed
    /\ Ran("connect.open", <<>>)

\* reader.read() resolves with a chunk: processData runs on a non-empty
\* value, then the loop tests its condition and reads again.
ReadChunk(chunk) ==
    /\ BagIn(Task("startReading", "read", <<>>), tasks)
    /\ state' = IF chunk # <<>> THEN processData(state, chunk, now) ELSE state
    /\ tasks' = IF readingGuard(state') THEN tasks
                ELSE Finish(tasks, Task("startReading", "read", <<>>))
    /\ Ran("processData", chunk)

\* SerialManager.send(command) up to writer.write.
sendTasks(st, ts, command) ==
    IF sendGuard(st) THEN Spawn(ts, Task("send", "write", command)) ELSE ts

\* UI.sendCommand(command): sent to the device when connected, simulated
\* otherwise.
SendCommand(command, changeAmount) ==
    /\ IF state.serial.isConnected
       THEN /\ tasks' = sendTasks(state, tasks, command)
            /\ state' = state
       ELSE /\ state' = simulateCommand(state, command, changeAmount, now)
            /\ tasks' = tasks
    /\ Ran("sendCommand", command)

\* The timer armed by connect() fires: send('STATUS').
TimerStatus ==
    /\ BagIn(Task("timer", "sendStatus", STATUS), tasks)
    /\ tasks' = sendTasks(state, Finish(tasks, Task("timer", "sendStatus", STATUS)), STATUS)
    /\ state' = state
    /\ Ran("timer.sendStatus", STATUS)

\* writer.write resolves: send() logs the command.
WriteResolved(command) ==
    /\ BagIn(Task("send", "write", command), tasks)
    /\ state' = sendWritten(state, command, now)
    /\ tasks' = Finish(tasks, Task("send", "write", command))
    /\ Ran("send.write", command)

\* The animation frame requested by scheduleUpdate.
AnimationFrame ==
    /\ state.ui.frames > 0
    /\ state' = [processUpdateQueue(state, now) EXCEPT
                    !.ui.pendingAnimationFrame = FALSE,
                    !.ui.frames = @ - 1]
    /\ tasks' = tasks
    /\ Ran("animationFrame", <<>>)

Next ==
    \/ Connect
    \/ RequestPortResolved
    \/ PortOpenResolved
    \/ \E chunk \in Chunks : ReadChunk(chunk)
    \/ \E command \in Commands :
         \E changeAmount \in (IF command = STATUS THEN ChangeAmounts ELSE {0}) :
             SendCommand(command, changeAmount)
    \/ TimerStatus
    \/ \E command \in Commands : WriteResolved(command)
    \/ AnimationFrame

Spec == Init /\ [][Next]_vars

(***************************************************************************)
(* The legacy handler (src/style.js).  It works on the global db of the    *)
(* page script it was written for and reports through that script's addLog *)
(* and addToUsageHistory.  Its world lg has the fields db, logs, history.  *)
(***************************************************************************)

\* addLog(message, type) of the page script: the entry is added to the log.
addLog(lg, message, type, t) ==
    [lg EXCEPT !.logs = <<[timestamp |-> t, message |-> message, type |-> type]>> \o @]

\* addToUsageHistory(capacity) of the page script: the sample is recorded.
addToUsageHistory(lg, capacity, t) ==
    [lg EXCEPT !.history = Append(@, [timestamp |-> t, capacity |-> capacity])]

\* updateFromArduinoData(data): the fields are stored first, the status
\* comparisons that follow read the status just stored.
updateFromArduinoData(lg, data, t) ==
    LET lg1 == [lg EXCEPT !.db.status = data.status,
                          !.db.capacity = data.capacity,
                          !.db.distance = data.distance,
                          !.db.dailyUsage = data.dailyUsage,
                          !.db.totalUsage = data.totalUsage]
        lg2 == IF data.status = BUKA /\ lg1.db.status # BUKA
               THEN addLog([lg1 EXCEPT !.db.lastActivity = t],
                           <<"Tong dibuka oleh Arduino">>, "success", t)
               ELSE IF data.status = TUTUP /\ lg1.db.status # TUTUP
               THEN addLog(lg1, <<"Tong ditutup oleh Arduino">>, "success", t)
               ELSE lg1
        lg3 == addToUsageHistory(lg2, data.capacity, t)
    IN  addLog(lg3, <<"Data diterima: ", data.capacity, "%, ", data.distance, "cm">>,
               "info", t)

\* The body of lines.forEach in processSerialData, for one piece of the chunk.
processSerialLine(lg, piece, t) ==
    LET line == Trim(piece)
        lg1  == [lg EXCEPT !.db.lastUpdate = t]
        parts == Split(line, ",")
    IN  IF Len(line) = 0 THEN lg
        ELSE IF Includes(line, ",")
        THEN IF Len(parts) >= 5
             THEN updateFromArduinoData(lg1,
                      [status |-> parts[1],
                       capacity |-> parseInt(parts[2]),
                       distance |-> parseInt(parts[3]),
                       dailyUsage |-> parseInt(parts[4]),
                       totalUsage |-> parseInt(parts[5])], t)
             ELSE lg1
        ELSE IF StartsWith(line, PrefixStatus)
        THEN LET status == Trim(RestOf(line, PrefixStatus))
             IN  addLog([lg1 EXCEPT !.db.status = status],
                        <<"Status dari Arduino: ">> \o status, "info", t)
        ELSE IF StartsWith(line, PrefixDistance)
        THEN LET distance == parseInt(Trim(RestOf(line, PrefixDistance)))
             IN  [lg1 EXCEPT !.db.distance = distance,
                             !.db.capacity = Legacy_calculateCapacity(distance)]
        ELSE IF StartsWith(line, PrefixUsage)
        THEN [lg1 EXCEPT !.db.dailyUsage = parseInt(Trim(RestOf(line, PrefixUsage)))]
        ELSE addLog(lg1, <<"Arduino: ">> \o line, "info", t)

RECURSIVE processSerialLines(_, _, _)
processSerialLines(lg, lines, t) ==
    IF lines = <<>> THEN lg
    ELSE processSerialLines(processSerialLine(lg, Head(lines), t), Tail(lines), t)

\* processSerialData(data): the chunk is split on line feeds and every piece
\* is handled in turn.
processSerialData(lg, data, t) == processSerialLines(lg, Split(data, "\n"), t)

\* The page script's db before any data has arrived.
Legacy_loaded ==
    [db |-> [status |-> TUTUP, capacity |-> 0, distance |-> 0,
             dailyUsage |-> 0, totalUsage |-> 0,
             lastActivity |-> Null, lastUpdate |-> 0],
     logs |-> <<>>,
     history |-> <<>>]

LegacyInit ==
    /\ state = Legacy_loaded
    /\ tasks = EmptyBag
    /\ now = 1
    /\ lastOp = [op |-> "init", arg |-> <<>>]

MaxLegacyTime == 3

\* readSerialData: reader.read() resolves with a chunk, processSerialData
\* runs on a non-empty value.
LegacyReadChunk(chunk) ==
    /\ now < MaxLegacyTime
    /\ state' = IF chunk # <<>> THEN processSerialData(state, chunk, now) ELSE state
    /\ now' = now + 1
    /\ lastOp' = [op |-> "processSerialData", arg |-> chunk]
    /\ UNCHANGED tasks

NextLegacy == \E chunk \in Chunks : LegacyReadChunk(chunk)

SpecLegacy == LegacyInit /\ [][NextLegacy]_vars

(***************************************************************************)
(* A long run of HistoryManager.addToHistory: one sample a day.  The bin   *)
(* fills by one percent a day and is emptied when full, until the history  *)
(* is about to reach its cap; from then on any of a few capacities is      *)
(* recorded.                                                               *)
(***************************************************************************)
MaxSamples == 1002

FreeFrom == maxHistorySize - 1

HistoryCapacities == {0, 45, 100}

CapacitiesAt(t) == IF t < FreeFrom THEN {t % 101} ELSE HistoryCapacities

HistorySample(capacity) ==
    /\ now <= MaxSamples
    /\ capacity \in CapacitiesAt(now)
    /\ state' = addToHistory(state, capacity, now)
    /\ now' = now + 1
    /\ lastOp' = [op |-> "addToHistory", arg |-> capacity]
    /\ UNCHANGED tasks

NextHistory == \E capacity \in 0..100 : HistorySample(capacity)

SpecHistory == Init /\ [][NextHistory]_vars

(***************************************************************************)
(* A long run of Logger.log: one entry a tick.  The entries are info lines *)
(* until the log is about to reach its cap; from then on an entry of any   *)
(* type is written.                                                        *)
(***************************************************************************)
MaxLogCalls == 502

LogTypes == {"info", "success", "warning", "error", "arduino"}

LogTypesAt(t) == IF t < maxLogs - 2 THEN {"info"} ELSE LogTypes

LogCall(type) ==
    /\ now <= MaxLogCalls
    /\ type \in LogTypesAt(now)
    /\ state' = Logger_log(state, <<"Data direfresh">>, type, now)
    /\ now' = now + 1
    /\ lastOp' = [op |-> "log", arg |-> type]
    /\ UNCHANGED tasks

NextLogger == \E type \in LogTypes : LogCall(type)

SpecLogger == Init /\ [][NextLogger]_vars

(***************************************************************************)
(* The pure functions of the ingestion path, applied to inputs drawn from  *)
(* bounded sets: lastOp records the call, its argument and its result.     *)
(***************************************************************************)
\* How a line begins: nothing, each prefix of the wire format, a status word.
LineHeads ==
    { <<>>,
      <<"S", "T", "A", "T", "U", "S", ":">>,
      <<"D", "I", "S", "T", "A", "N", "C", "E", ":">>,
      <<"U", "S", "A", "G", "E", ":">>,
      <<"S", "Y", "S", "T", "E", "M", "_", "R", "E", "A", "D", "Y">>,
      <<"C", "M", "D", "_", "R", "E", "C", "E", "I", "V", "E", "D", ":">>,
      <<"B", "U", "K", "A">>,
      <<"s", "t", "a", "t", "u", "s", ":">> }

\* How it goes on: words, digits, digits with a unit, comma-separated fields.
LineTails ==
    { <<>>,
      <<"B", "U", "K", "A">>,
      <<"1", "2">>,
      <<"1", "2", "c", "m">>,
      <<"x", "1">>,
      <<"-", "5">>,
      <<"0">>,
      <<"0", "0", "7">>,
      <<" ", "7">>,
      <<",", "1", ",", "2", ",", "3", ",", "4">>,
      <<",", "1", ",", "2", ",", "3">>,
      <<",", "a", ",", "2", ",", "3", ",", "4", ",", "5">>,
      <<",", ",", ",", ",">>,
      <<"T", "U", "T", "U", "P", ",", "8", "0", ",", "1", "0", ",", "2", ",", "5">> }

\* The non-empty lines parseSerialLine is applied to.
ParseLines == {h \o t : h \in LineHeads, t \in LineTails} \ {<<>>}

\* What lies between two line feeds of a chunk: nothing, white space, lines
\* with and without a carriage return or surrounding blanks.
Pieces ==
    { <<>>,
      <<" ">>,
      <<"\r">>,
      <<"S", "e", "n", "s", "o", "r", " ", "O", "K">>,
      <<"S", "e", "n", "s", "o", "r", " ", "O", "K", "\r">>,
      <<" ", "U", "S", "A", "G", "E", ":", "7", " ">>,
      <<"B", "U", "K", "A", ",", "4", "5", ",", "2", "7", ",", "3", ",", "1", "2", "0", "\r">>,
      <<"D", "I", "S", "T", "A", "N", "C", "E", ":", "1", "0">> }

MaxPieces == 3

RECURSIVE JoinLines(_)
JoinLines(ps) ==
    IF Len(ps) = 0 THEN <<>>
    ELSE IF Len(ps) = 1 THEN ps[1]
    ELSE ps[1] \o LF \o JoinLines(Tail(ps))

\* The sequences of 1..MaxPieces pieces.
PieceSeqs == UNION {[1..n -> Pieces] : n \in 1..MaxPieces}

MaxDistanceInput == 120

Distances == (0 - MaxDistanceInput)..MaxDistanceInput

\* No call has been made yet: a behaviour of SpecPure makes one call.
NoCallYet == lastOp.op = "init"

\* The result is computed inside each action, where the call is made.
ParseLine(line) ==
    /\ NoCallYet
    /\ lastOp' = [op |-> "parseSerialLine", arg |-> line,
                  result |-> parseSerialLine(line)]
    /\ UNCHANGED <<state, tasks, now>>

ParseChunk(pieces) ==
    /\ NoCallYet
    /\ lastOp' = [op |-> "processSerialChunk", arg |-> pieces,
                  result |-> processSerialChunk(JoinLines(pieces))]
    /\ UNCHANGED <<state, tasks, now>>

Capacity(distance) ==
    /\ NoCallYet
    /\ lastOp' = [op |-> "calculateCapacity", arg |-> distance,
                  result |-> [app |-> calculateCapacity(distance),
                              legacy |-> Legacy_calculateCapacity(distance)]]
    /\ UNCHANGED <<state, tasks, now>>

NextPure ==
    \/ \E line \in ParseLines : ParseLine(line)
    \/ \E pieces \in PieceSeqs : ParseChunk(pieces)
    \/ \E distance \in Distances : Capacity(distance)

SpecPure == Init /\ [][NextPure]_vars

(***************************************************************************)
(* Properties.  A step is described by the state before it (unprimed), the *)
(* state after it (primed) and the handler that made it (lastOp').         *)
(***************************************************************************)

\* The device fields of state.db.
Device(st) ==
    [status |-> st.db.status,
     capacity |-> st.db.capacity,
     distance |-> st.db.distance,
     dailyUsage |-> st.db.dailyUsage,
     totalUsage |-> st.db.totalUsage,
     lastActivity |-> st.db.lastActivity,
     lastUpdate |-> st.db.lastUpdate]

\* The handler that ran last processed a chunk.
IsChunkOp(op) == op.op = "processData"

\* The updates of the chunk op processed.
UpdatesOf(op) == parsedChunk[op.arg]

TypesOf(updates) == {updates[i].type : i \in 1..Len(updates)}

HasFull(updates) == "full" \in TypesOf(updates)

\* The last update of the given type in a batch that holds one.
LastOfType(updates, type) ==
    LET at == {i \in 1..Len(updates) : updates[i].type = type}
    IN  updates[CHOOSE i \in at : \A j \in at : j <= i]

\* C1: in every reachable state, capacity is an integer in [0,100].
C1_CapacityInRange == state.db.capacity \in 0..100

\* C2: in every step the new value of dailyUsage and of totalUsage is greater
\* than or equal to its previous value.
C2_CountersNeverDecrease ==
    [][/\ state'.db.dailyUsage >= state.db.dailyUsage
       /\ state'.db.totalUsage >= state.db.totalUsage]_vars

\* C2, as amended: a counter is lower after a step than before it only when
\* the step processes a chunk whose applied report carries that counter (the
\* last FullReport, or without one the last USAGE partial for dailyUsage),
\* and the new value is then at least the reported value.
C2_CountersDecreaseOnlyToReported ==
    [][/\ state'.db.dailyUsage < state.db.dailyUsage =>
            /\ IsChunkOp(lastOp')
            /\ IF HasFull(UpdatesOf(lastOp'))
               THEN state'.db.dailyUsage >=
                        LastOfType(UpdatesOf(lastOp'), "full").dailyUsage
               ELSE /\ "usage" \in TypesOf(UpdatesOf(lastOp'))
                    /\ state'.db.dailyUsage =
                        parseInt(LastOfType(UpdatesOf(lastOp'), "usage").value)
       /\ state'.db.totalUsage < state.db.totalUsage =>
            /\ IsChunkOp(lastOp')
            /\ HasFull(UpdatesOf(lastOp'))
            /\ state'.db.totalUsage >=
                    LastOfType(UpdatesOf(lastOp'), "full").totalUsage]_vars

\* C2 witness: a report with lower counters has been applied after an opening
\* was counted.
C2_Witness ==
    /\ IsChunkOp(lastOp)
    /\ lastOp.arg = LineClosedLow \o LF
    /\ state.db.dailyUsage = 2
    /\ state.db.totalUsage = 5
    /\ state.db.lastActivity # Null

\* C3: a chunk holding one FullReport (s, c, d, du, tu) yields status s,
\* capacity c, distance d; from TUTUP to BUKA the counters are du+1 and tu+1
\* and lastActivity is the time of the step; in every other case the counters
\* are du and tu and lastActivity is unchanged.
C3_FullReportApplied ==
    [][(IsChunkOp(lastOp') /\ Len(UpdatesOf(lastOp')) = 1 /\ HasFull(UpdatesOf(lastOp'))) =>
        LET r == UpdatesOf(lastOp')[1]
        IN  /\ state'.db.status = r.status
            /\ state'.db.capacity = r.capacity
            /\ state'.db.distance = r.distance
            /\ IF state.db.status = TUTUP /\ r.status = BUKA
               THEN /\ state'.db.dailyUsage = r.dailyUsage + 1
                    /\ state'.db.totalUsage = r.totalUsage + 1
                    /\ state'.db.lastActivity = now
               ELSE /\ state'.db.dailyUsage = r.dailyUsage
                    /\ state'.db.totalUsage = r.totalUsage
                    /\ state'.db.lastActivity = state.db.lastActivity]_vars

\* C3 witness: "BUKA,45,27,3,120" has been applied to a closed bin.
C3_Witness ==
    /\ IsChunkOp(lastOp)
    /\ lastOp.arg = LineOpen \o LF
    /\ state.db.status = BUKA
    /\ state.db.capacity = 45
    /\ state.db.distance = 27
    /\ state.db.dailyUsage = 4
    /\ state.db.totalUsage = 121
    /\ state.db.lastActivity = now - 1

\* C4: when a batch of several updates holds a FullReport, the device fields
\* after the step are those the last FullReport alone gives: no earlier
\* FullReport and no PartialReport of the batch shows in them.
C4_LastFullReportWins ==
    [][(IsChunkOp(lastOp') /\ Len(UpdatesOf(lastOp')) > 1 /\ HasFull(UpdatesOf(lastOp'))) =>
        LET r == LastOfType(UpdatesOf(lastOp'), "full")
            opened == state.db.status = TUTUP /\ r.status = BUKA
        IN  Device(state') =
                [status |-> r.status,
                 capacity |-> r.capacity,
                 distance |-> r.distance,
                 dailyUsage |-> IF opened THEN r.dailyUsage + 1 ELSE r.dailyUsage,
                 totalUsage |-> IF opened THEN r.totalUsage + 1 ELSE r.totalUsage,
                 lastActivity |-> IF opened THEN now ELSE state.db.lastActivity,
                 lastUpdate |-> now]]_vars

\* C4 witness: a chunk of two FullReports has been processed after an earlier
\* report; the bin shows the second report only.
C4_Witness ==
    /\ IsChunkOp(lastOp)
    /\ lastOp.arg = LineOpen \o LF \o LineClosedLow \o LF
    /\ state.db.status = TUTUP
    /\ state.db.capacity = 80
    /\ state.db.dailyUsage = 2
    /\ Len(state.db.usageHistory.daily) > 1

\* C5: when the FullReport applied by a chunk is the one the chunk before it
\* applied, and the status already equals the report's status, the counters
\* take the report's values with no increment and lastActivity is unchanged.
C5_RepeatedReportCountsNothing ==
    [][(/\ IsChunkOp(lastOp) /\ HasFull(UpdatesOf(lastOp))
        /\ IsChunkOp(lastOp') /\ HasFull(UpdatesOf(lastOp'))
        /\ LastOfType(UpdatesOf(lastOp'), "full") = LastOfType(UpdatesOf(lastOp), "full")
        /\ state.db.status = LastOfType(UpdatesOf(lastOp'), "full").status) =>
        LET r == LastOfType(UpdatesOf(lastOp'), "full")
        IN  /\ state'.db.dailyUsage = r.dailyUsage
            /\ state'.db.totalUsage = r.totalUsage
            /\ state'.db.lastActivity = state.db.lastActivity]_vars

\* C5 witness: "BUKA,45,27,3,120" has been applied twice in a row, the first
\* time to a closed bin.
C5_Witness ==
    /\ IsChunkOp(lastOp)
    /\ lastOp.arg = LineOpen \o LF
    /\ state.db.status = BUKA
    /\ state.db.dailyUsage = 3
    /\ state.db.totalUsage = 120
    /\ state.db.lastActivity = now - 2
    /\ LET daily == state.db.usageHistory.daily
       IN  /\ Len(daily) = 2
           /\ daily[1] = [timestamp |-> now - 2, capacity |-> 45]
           /\ daily[2] = [timestamp |-> now - 1, capacity |-> 45]

\* C6: lastActivity changes only in a step in which status changes from
\* TUTUP to BUKA.
C6_ActivityOnlyOnOpening ==
    [][state'.db.lastActivity # state.db.lastActivity =>
        (state.db.status = TUTUP /\ state'.db.status = BUKA)]_vars

\* The step adds the local +1 to both counters: on top of the applied
\* FullReport's counters, or else on top of the previous values.
LocalIncrement ==
    IF IsChunkOp(lastOp') /\ HasFull(UpdatesOf(lastOp'))
    THEN /\ state'.db.dailyUsage = LastOfType(UpdatesOf(lastOp'), "full").dailyUsage + 1
         /\ state'.db.totalUsage = LastOfType(UpdatesOf(lastOp'), "full").totalUsage + 1
    ELSE /\ state'.db.dailyUsage = state.db.dailyUsage + 1
         /\ state'.db.totalUsage = state.db.totalUsage + 1

\* C7: the local +1 of dailyUsage and totalUsage is added only in a step in
\* which status changes from TUTUP to BUKA.
C7_IncrementOnlyOnOpening ==
    [][LocalIncrement => (state.db.status = TUTUP /\ state'.db.status = BUKA)]_vars

\* The step processes a chunk whose one update is STATUS:BUKA while the bin
\* is closed.
StatusOpenPartialOnClosed ==
    /\ IsChunkOp(lastOp')
    /\ Len(UpdatesOf(lastOp')) = 1
    /\ UpdatesOf(lastOp')[1].type = "status"
    /\ UpdatesOf(lastOp')[1].value = BUKA
    /\ state.db.status = TUTUP

\* C8: a STATUS:BUKA partial applied while status is TUTUP sets lastActivity
\* to the time of the step and increments dailyUsage and totalUsage by 1.
C8_StatusPartialCounts ==
    [][StatusOpenPartialOnClosed =>
        /\ state'.db.lastActivity = now
        /\ state'.db.dailyUsage = state.db.dailyUsage + 1
        /\ state'.db.totalUsage = state.db.totalUsage + 1]_vars

\* C8, as amended: a STATUS:BUKA partial applied while status is TUTUP sets
\* status to BUKA and lastUpdate to the time of the step, and nothing else:
\* lastActivity, dailyUsage and totalUsage keep their values.
C8_StatusPartialSetsStatusOnly ==
    [][StatusOpenPartialOnClosed =>
        Device(state') = [Device(state) EXCEPT !.status = BUKA, !.lastUpdate = now]]_vars

\* C8 witness: STATUS:BUKA has been applied to the closed bin of a fresh
\* page.
C8_Witness ==
    /\ IsChunkOp(lastOp)
    /\ lastOp.arg = LineStatusOpen \o LF
    /\ state.db.status = BUKA
    /\ state.db.lastActivity = Null
    /\ state.db.dailyUsage = 0
    /\ state.db.totalUsage = 0
    /\ state.db.lastUpdate = now - 1

\* The step processes a chunk of one or more updates, all of them Message or
\* SYSTEM_READY events.
MessagesOnlyChunk ==
    /\ IsChunkOp(lastOp')
    /\ Len(UpdatesOf(lastOp')) > 0
    /\ TypesOf(UpdatesOf(lastOp')) \subseteq {"message", "ready"}

\* The log after the step: one 'arduino' entry per update, newest first, on
\* top of the log before the step.
EventsLogged ==
    LET updates == UpdatesOf(lastOp')
        n == Len(updates)
    IN  /\ Len(state'.db.logs) = Len(state.db.logs) + n
        /\ SubSeq(state'.db.logs, n + 1, Len(state'.db.logs)) = state.db.logs
        /\ \A k \in 1..n :
             state'.db.logs[n - k + 1] =
                [timestamp |-> now,
                 message |-> <<"Arduino: ">> \o updates[k].value,
                 type |-> "arduino"]

\* C9: a chunk of Message and SYSTEM_READY events only leaves every device
\* field, lastUpdate included, unchanged, and appends each event to the log.
C9_MessagesChangeNothing ==
    [][MessagesOnlyChunk => (Device(state') = Device(state) /\ EventsLogged)]_vars

\* C9, as amended: such a chunk sets lastUpdate to the time of the step and
\* leaves every other device field and the usage history unchanged; each
\* event is entered in the log and a UI refresh is scheduled.
C9_MessagesTouchLastUpdateOnly ==
    [][MessagesOnlyChunk =>
        /\ Device(state') = [Device(state) EXCEPT !.lastUpdate = now]
        /\ state'.db.usageHistory = state.db.usageHistory
        /\ EventsLogged
        /\ "all" \in state'.ui.updateQueue
        /\ state'.ui.pendingAnimationFrame]_vars

\* C9 witness: the chunk "Sensor OK", "SYSTEM_READY" has been processed.
C9_Witness ==
    /\ IsChunkOp(lastOp)
    /\ lastOp.arg = LineMessage \o LF \o LineReady \o LF
    /\ state.db.logs[1].message = <<"Arduino: ", "true">>
    /\ state.db.logs[2].message = <<"Arduino: ">> \o LineMessage
    /\ state.db.lastUpdate = now - 1

\* C10: a batch without a FullReport changes, besides lastUpdate, status only
\* through its STATUS partials, distance and capacity only through its
\* DISTANCE partials and dailyUsage only through its USAGE partials, the last
\* partial of a kind giving the final value; totalUsage and lastActivity are
\* unchanged.
C10_PartialsOwnFields ==
    [][(IsChunkOp(lastOp') /\ ~HasFull(UpdatesOf(lastOp'))) =>
        LET updates == UpdatesOf(lastOp')
            has(type) == type \in TypesOf(updates)
            d == parseInt(LastOfType(updates, "distance").value)
        IN  /\ state'.db.status =
                    IF has("status") THEN LastOfType(updates, "status").value
                    ELSE state.db.status
            /\ state'.db.distance = IF has("distance") THEN d ELSE state.db.distance
            /\ state'.db.capacity =
                    IF has("distance") THEN calculateCapacity(d)
                    ELSE state.db.capacity
            /\ state'.db.dailyUsage =
                    IF has("usage") THEN parseInt(LastOfType(updates, "usage").value)
                    ELSE state.db.dailyUsage
            /\ state'.db.totalUsage = state.db.totalUsage
            /\ state'.db.lastActivity = state.db.lastActivity]_vars

\* C10 witness: STATUS:BUKA, DISTANCE:10 and USAGE:7 have been applied from
\* one chunk to the closed bin of a fresh page.
C10_Witness ==
    /\ IsChunkOp(lastOp)
    /\ lastOp.arg = LineStatusOpen \o LF \o LineDistance10 \o LF \o LineUsage7 \o LF
    /\ state.db.status = BUKA
    /\ state.db.distance = 10
    /\ state.db.capacity = 80
    /\ state.db.dailyUsage = 7
    /\ state.db.totalUsage = 0
    /\ state.db.lastActivity = Null

\* C11: a batch without a FullReport that holds a DISTANCE partial leaves the
\* stored distance clamped to [0, maxDistance]: the reported distance when it
\* is at most maxDistance, maxDistance otherwise.
C11_DistanceClamped ==
    [][(/\ IsChunkOp(lastOp')
        /\ ~HasFull(UpdatesOf(lastOp'))
        /\ "distance" \in TypesOf(UpdatesOf(lastOp'))) =>
        LET d == parseInt(LastOfType(UpdatesOf(lastOp'), "distance").value)
        IN  state'.db.distance = IF d > maxDistance THEN maxDistance ELSE d]_vars

\* Utils.calculateCapacity as the specification states it.
CapacityOf(d) ==
    IF d <= 0 THEN 100 ELSE IF d >= 50 THEN 0 ELSE 100 - 2 * d

\* C12: for every integer distance d, calculateCapacity(d) is
\* round(clamp(100 - 100 * clamp(d, 0, 50) / 50, 0, 100)), in the application
\* and in the legacy handler: it lies in [0,100], is 100 at 0 and 0 at 50,
\* and no smaller distance gives a smaller capacity.
C12_CapacityFormula ==
    lastOp.op = "calculateCapacity" =>
        /\ lastOp.result.app = CapacityOf(lastOp.arg)
        /\ lastOp.result.legacy = CapacityOf(lastOp.arg)
        /\ lastOp.result.app \in 0..100
        /\ calculateCapacity(0) = 100
        /\ calculateCapacity(50) = 0
        /\ \A e \in Distances :
             e <= lastOp.arg => calculateCapacity(e) >= lastOp.result.app

\* C12 witness: calculateCapacity(10) has returned 80.
C12_Witness ==
    /\ lastOp.op = "calculateCapacity"
    /\ lastOp.arg = 10
    /\ lastOp.result.app = 80
    /\ lastOp.result.legacy = 80

\* C13: in every reachable state the status is one of the two enum values,
\* BUKA or TUTUP.
C13_StatusInEnum == state.db.status \in {BUKA, TUTUP}

\* The number of commas of a line: one less than its number of fields.
CommaCount(line) == Cardinality({i \in 1..Len(line) : line[i] = ","})

\* The line begins with the prefix and a digit follows it.
DigitAfter(line, prefix) ==
    /\ Len(line) > Len(prefix)
    /\ SubSeq(line, 1, Len(prefix)) = prefix
    /\ IsDigit(line[Len(prefix) + 1])

\* The line begins with the prefix and at least one character follows it.
TextAfter(line, prefix) ==
    /\ Len(line) > Len(prefix)
    /\ SubSeq(line, 1, Len(prefix)) = prefix

\* The kind of event a line is, by the priority order of the classifier.
KindOf(line) ==
    IF CommaCount(line) >= 4 THEN "full"
    ELSE IF TextAfter(line, PrefixStatus) THEN "status"
    ELSE IF DigitAfter(line, PrefixDistance) THEN "distance"
    ELSE IF DigitAfter(line, PrefixUsage) THEN "usage"
    ELSE IF Len(line) >= Len(PrefixReady) /\ SubSeq(line, 1, Len(PrefixReady)) = PrefixReady
    THEN "ready"
    ELSE IF TextAfter(line, PrefixCommand) THEN "command"
    ELSE "message"

\* value is the longest run of digits that follows the prefix in the line.
IsDigitsAfter(line, prefix, value) ==
    LET end == Len(prefix) + Len(value)
    IN  /\ Len(value) > 0
        /\ end <= Len(line)
        /\ SubSeq(line, 1, end) = prefix \o value
        /\ \A i \in 1..Len(value) : IsDigit(value[i])
        /\ end < Len(line) => ~IsDigit(line[end + 1])

\* C14: parseSerialLine turns every non-empty line into exactly one event,
\* of the kind the priority order gives: FullReport for 5 or more comma
\* fields, else the first matching partial pattern, else a Message; the event
\* carries the raw line, a partial carries the text or the digits after its
\* prefix, a Message carries the whole line, a FullReport the first field as
\* its status.
C14_ClassifiedByPriority ==
    lastOp.op = "parseSerialLine" =>
        LET line == lastOp.arg
            r    == lastOp.result
        IN  /\ r.type = KindOf(line)
            /\ r.raw = line
            /\ r.type = "full" =>
                 /\ r.status \o <<",">> = SubSeq(line, 1, Len(r.status) + 1)
                 /\ CommaCount(r.status) = 0
            /\ r.type = "status" => PrefixStatus \o r.value = line
            /\ r.type = "command" => PrefixCommand \o r.value = line
            /\ r.type = "distance" => IsDigitsAfter(line, PrefixDistance, r.value)
            /\ r.type = "usage" => IsDigitsAfter(line, PrefixUsage, r.value)
            /\ r.type = "message" => r.value = line

\* C14 witness: "STATUS:,1,2,3,4", a line of 5 fields that begins with a
\* partial prefix, has been classified as a FullReport.
C14_Witness ==
    /\ lastOp.op = "parseSerialLine"
    /\ lastOp.arg = PrefixStatus \o <<",", "1", ",", "2", ",", "3", ",", "4">>
    /\ lastOp.result.type = "full"
    /\ lastOp.result.status = PrefixStatus
    /\ lastOp.result.totalUsage = 4

\* C15: no numeric device field is ever a non-number: a numeric field of a
\* 5-field line that fails to parse is stored as 0.
C15_NoFieldIsNaN ==
    /\ state.db.capacity # NaN
    /\ state.db.distance # NaN
    /\ state.db.dailyUsage # NaN
    /\ state.db.totalUsage # NaN

\* A piece without the white space at its two ends.
RECURSIVE Stripped(_)
Stripped(s) ==
    IF s = <<>> THEN <<>>
    ELSE IF Head(s) \in WhiteSpace THEN Stripped(Tail(s))
    ELSE IF s[Len(s)] \in WhiteSpace THEN Stripped(SubSeq(s, 1, Len(s) - 1))
    ELSE s

\* The stripped pieces that are not empty, in the order of the pieces.
RECURSIVE NonBlankLines(_)
NonBlankLines(ps) ==
    IF Len(ps) = 0 THEN <<>>
    ELSE IF Stripped(ps[1]) = <<>> THEN NonBlankLines(Tail(ps))
    ELSE <<Stripped(ps[1])>> \o NonBlankLines(Tail(ps))

\* C16: processSerialChunk returns one event per non-blank line of the
\* chunk, in line order: the event of the k-th non-blank line is the
\* classification of that line without its surrounding white space, and
\* blank pieces give no event.
C16_OneEventPerLine ==
    lastOp.op = "processSerialChunk" =>
        LET lines == NonBlankLines(lastOp.arg)
        IN  /\ Len(lastOp.result) = Len(lines)
            /\ \A k \in 1..Len(lines) :
                 /\ lastOp.result[k].raw = lines[k]
                 /\ lastOp.result[k] = parseSerialLine(lines[k])

\* C16 witness: the chunk " USAGE:7 ", "", "Sensor OK\r" has given the two
\* events USAGE 7 and Message "Sensor OK".
C16_Witness ==
    /\ lastOp.op = "processSerialChunk"
    /\ Len(lastOp.arg) = 3
    /\ lastOp.arg[1] = <<" ">> \o LineUsage7 \o <<" ">>
    /\ lastOp.arg[2] = <<>>
    /\ lastOp.arg[3] = LineMessage \o <<"\r">>
    /\ Len(lastOp.result) = 2
    /\ lastOp.result[1].type = "usage"
    /\ lastOp.result[2].raw = LineMessage

\* C17: a chunk with one or more FullReports appends exactly one sample to
\* the daily history, (time of the step, capacity of the last FullReport); a
\* chunk without a FullReport leaves the daily history as it is.
C17_OneSamplePerAppliedReport ==
    [][IsChunkOp(lastOp') =>
        state'.db.usageHistory.daily =
            IF HasFull(UpdatesOf(lastOp'))
            THEN Append(state.db.usageHistory.daily,
                        [timestamp |-> now,
                         capacity |-> LastOfType(UpdatesOf(lastOp'), "full").capacity])
            ELSE state.db.usageHistory.daily]_vars

\* C17 witness: after one earlier report, the chunk "BUKA,45,27,3,120",
\* "TUTUP,80,10,2,5" has added the one sample of capacity 80.
C17_Witness ==
    /\ IsChunkOp(lastOp)
    /\ lastOp.arg = LineOpen \o LF \o LineClosedLow \o LF
    /\ Len(state.db.usageHistory.daily) = 2
    /\ state.db.usageHistory.daily[2] = [timestamp |-> now - 1, capacity |-> 80]

\* C18: the daily history never holds more than 1000 samples; an insert that
\* would make it longer leaves the 500 most recent samples, the new one
\* last, in their order; any other insert only appends the new sample.
C18_HistoryCap ==
    [][lastOp'.op = "addToHistory" =>
        LET old    == state.db.usageHistory.daily
            new    == state'.db.usageHistory.daily
            pushed == Append(old, [timestamp |-> now, capacity |-> lastOp'.arg])
        IN  /\ Len(new) <= 1000
            /\ IF Len(old) + 1 > 1000
               THEN /\ Len(new) = 500
                    /\ \A k \in 1..500 : new[k] = pushed[Len(pushed) - 500 + k]
               ELSE new = pushed]_vars

\* C18 witness: the 1001st sample has been inserted and the history holds
\* the 500 samples of days 502 to 1001.
C18_Witness ==
    /\ lastOp.op = "addToHistory"
    /\ now = 1002
    /\ Len(state.db.usageHistory.daily) = 500
    /\ state.db.usageHistory.daily[1].timestamp = 502
    /\ state.db.usageHistory.daily[500] = [timestamp |-> 1001, capacity |-> lastOp.arg]

\* The keys of an object used as a map, in insertion order.
KeysOf(obj) == [i \in 1..Len(obj) |-> obj[i].key]

\* The place of a month key <<year, month>> in the calendar.
MonthOrd(key) == key[1] * 12 + key[2]

\* C19: after every addToHistory call there are at most 12 monthly buckets
\* and the month just recorded is among them; recording a 13th distinct
\* month evicts the oldest month only, so the 12 most recent months remain.
C19_TwelveMonthsKept ==
    [][lastOp'.op = "addToHistory" =>
        LET old == KeysOf(state.db.usageHistory.monthly)
            new == KeysOf(state'.db.usageHistory.monthly)
            key == <<getFullYear(now), getMonth(now) + 1>>
            had == \E i \in 1..Len(old) : old[i] = key
        IN  /\ Len(new) <= 12
            /\ new[Len(new)] = key
            /\ new = IF had THEN old
                     ELSE IF Len(old) = 12 THEN Tail(old) \o <<key>>
                     ELSE old \o <<key>>
            /\ \A i \in 1..Len(old) :
                 (\A j \in 1..Len(new) : new[j] # old[i]) =>
                     \A j \in 1..Len(new) : MonthOrd(old[i]) < MonthOrd(new[j])]_vars

\* C19 witness: the first sample of the 13th month has been recorded; the
\* first month is gone and the 12 months from the second on remain.
C19_Witness ==
    /\ lastOp.op = "addToHistory"
    /\ now = 12 * DaysPerMonth + 1
    /\ Len(state.db.usageHistory.monthly) = 12
    /\ state.db.usageHistory.monthly[1].key = <<EpochYear, 2>>
    /\ state.db.usageHistory.monthly[12].key = <<EpochYear + 1, 1>>
    /\ state.db.usageHistory.monthly[12].bucket.count = 1

\* C20: the log never holds more than 500 entries; every Logger.log call
\* puts its entry first, and a call on a full log drops the last entry, the
\* oldest one, so the 500 most recent entries remain, newest first.
C20_LogCap ==
    [][lastOp'.op = "log" =>
        LET old   == state.db.logs
            new   == state'.db.logs
            entry == [timestamp |-> now, message |-> <<"Data direfresh">>,
                      type |-> lastOp'.arg]
        IN  /\ Len(new) <= 500
            /\ new[1] = entry
            /\ Len(new) = IF Len(old) = 500 THEN 500 ELSE Len(old) + 1
            /\ \A k \in 2..Len(new) : new[k] = old[k - 1]
            /\ \A k \in 1..(Len(new) - 1) : new[k].timestamp >= new[k + 1].timestamp]_vars

\* C20 witness: a call has found the log full; the start-up entry, the
\* oldest one, is gone and the 500 entries of ticks 501 down to 2 remain.
C20_Witness ==
    /\ lastOp.op = "log"
    /\ now = 502
    /\ Len(state.db.logs) = 500
    /\ state.db.logs[1].timestamp = 501
    /\ state.db.logs[500].timestamp = 2

(***************************************************************************)
(* The serial session with every outcome of its awaits: a rejected port    *)
(* request or open, the end of the stream, a failed read or write, and     *)
(* disconnect.  The operators work on a record w of the world st, the      *)
(* suspended calls tasks, the notifications shown (notified) and the data  *)
(* handed to the device (written) by the handler that is running.          *)
(***************************************************************************)
\* UI.showNotification(message, type).
showNotification(w, message, type) ==
    [w EXCEPT !.notified = Append(@, [message |-> message, type |-> type])]

\* The read loop suspended in reader.read().
readTask == Task("startReading", "read", <<>>)

\* The read loop resumed with done by reader.cancel(), not yet run.
doneTask == Task("startReading", "done", <<>>)

\* The 500 ms timer of connect().
statusTimer == Task("timer", "sendStatus", STATUS)

\* The names of the errors the platform rejects with.
RequestPortErrors == {"NotFoundError", "SecurityError"}

OpenErrors == {"InvalidStateError", "NetworkError"}

ReadErrors == {"NetworkError", "InterruptedError"}

\* checkSupport() holds or fails with the browser, connect() stops at its
\* guard, at the support check, or suspends in requestPort.
connect(w, supported, t) ==
    IF ~connectGuard(w.st) THEN w
    ELSE IF ~supported
    THEN showNotification(w, <<"Browser tidak mendukung Web Serial API">>, "error")
    ELSE [w EXCEPT !.st = connectBegin(@, t),
                   !.tasks = Spawn(@, Task("connect", "requestPort", <<>>))]

\* What connect() has returned when it stops: false, or a pending promise.
connectResult(st, supported) ==
    IF connectGuard(st) /\ supported THEN "pending" ELSE "false"

\* The switch on error.name.
connectionErrorMessage(name) ==
    IF name = "NotFoundError" THEN <<"Tidak ada perangkat Arduino ditemukan">>
    ELSE IF name = "SecurityError" THEN <<"Izin akses serial ditolak">>
    ELSE IF name = "InvalidStateError" THEN <<"Port sedang digunakan">>
    ELSE <<"Gagal menghubungkan: ", name>>

handleConnectionError(w, name, t) ==
    LET message == connectionErrorMessage(name)
        w1 == [w EXCEPT !.st = Logger_log([@ EXCEPT !.serial.isConnecting = FALSE],
                                          message, "error", t)]
    IN  showNotification(w1, message, "error")

\* startReading() from the test of its loop condition to reader.read().
startReading(w) ==
    IF readingGuard(w.st) THEN [w EXCEPT !.tasks = Spawn(@, readTask)] ELSE w

\* connect() after port.open() resolved: the streams, the flags, the read
\* loop up to its first read, and the STATUS timer.
connectEstablished(w, t) ==
    LET st1 == connectOpened(w.st, t)
        w1  == showNotification([w EXCEPT !.st = st1],
                                <<"Arduino terhubung (", st1.serial.baudRate, " baud)">>,
                                "success")
        w2  == startReading(w1)
    IN  [w2 EXCEPT !.tasks = Spawn(@, statusTimer)]

\* Faulty variant: disconnect() without its guard.
disconnectGuard_always(st) == TRUE

\* disconnect() goes on only when connected or connecting.
disconnectGuard(st) == st.serial.isConnected \/ st.serial.isConnecting

\* The await disconnect() reaches next from a place of its try block
\* ("reader", "writer", "port"), "none" when it reaches finally.
disconnectAwait(st, from) ==
    IF from = "reader" /\ st.serial.reader # NoHandle THEN "cancel"
    ELSE IF from \in {"reader", "writer"} /\ st.serial.writer # NoHandle THEN "close"
    ELSE IF st.serial.port # NoHandle THEN "portClose"
    ELSE "none"

\* The finally block of disconnect().
disconnectFinally(w, t) ==
    LET w1 == showNotification(w, <<"Arduino terputus">>, "warning")
    IN  [w1 EXCEPT !.st = Logger_log([@ EXCEPT !.serial.isConnected = FALSE,
                                               !.serial.isConnecting = FALSE],
                                     <<"Arduino terputus">>, "warning", t)]

CopiesOf(task, n) == IF n = 0 THEN EmptyBag ELSE [x \in {task} |-> n]

\* Faulty variant: cancel() leaves the pending read pending.
cancelReads_leavesPending(ts) == ts

\* reader.cancel() closes the stream, and closing it settles every pending
\* read with done: the read loop is resumed before cancel's own promise
\* settles.
cancelReads(ts) ==
    LET n == CopiesIn(readTask, ts)
    IN  (ts (-) CopiesOf(readTask, n)) (+) CopiesOf(doneTask, n)

\* disconnect() from a place of its try block up to its next await, or
\* through finally; awaited lists the awaits this call has behind it.
disconnectFrom(w, from, awaited, t) ==
    LET await == disconnectAwait(w.st, from)
    IN  IF await = "none" THEN disconnectFinally(w, t)
        ELSE [w EXCEPT !.tasks =
                 Spawn(IF await = "cancel" THEN cancelReads(@) ELSE @,
                       Task("disconnect", await, awaited))]

\* disconnect() up to its first await, or to its end when nothing is open.
disconnect(w, t) ==
    IF ~disconnectGuard(w.st) THEN w
    ELSE disconnectFrom([w EXCEPT !.st = Logger_log(@, <<"Memutuskan koneksi Arduino...">>,
                                                    "info", t)],
                        "reader", <<>>, t)

\* disconnect() resumed after the await of task settled: a rejection, and a
\* releaseLock() on a handle another call has set to null meanwhile, go to
\* catch and finally.
disconnectResumed(w, task, ok, t) ==
    LET awaited == Append(task.arg, task.at)
    IN  IF ~ok THEN disconnectFinally(w, t)
        ELSE IF task.at = "cancel"
        THEN IF w.st.serial.reader = NoHandle THEN disconnectFinally(w, t)
             ELSE disconnectFrom([w EXCEPT !.st.serial.reader = NoHandle],
                                 "writer", awaited, t)
        ELSE IF task.at = "close"
        THEN IF w.st.serial.writer = NoHandle THEN disconnectFinally(w, t)
             ELSE disconnectFrom([w EXCEPT !.st.serial.writer = NoHandle],
                                 "port", awaited, t)
        ELSE disconnectFinally([w EXCEPT !.st.serial.port = NoHandle], t)

\* Faulty variant: a failed read ends the loop and nothing else.
readFailed_silent(w, name, t) == w

\* The catch block of startReading().
readFailed(w, name, t) ==
    IF name = "InterruptedError" THEN w
    ELSE disconnect([w EXCEPT !.st = Logger_log(@, <<"Error membaca data serial: ", name>>,
                                                "error", t)], t)

\* The read loop resumed with a chunk: processData on a non-empty value,
\* then the loop condition and the next read.
readValue(w, chunk, t) ==
    startReading([w EXCEPT !.st = IF chunk # <<>> THEN processData(@, chunk, t) ELSE @])

\* The read loop resumed with done: reader.releaseLock() and break; with
\* state.serial.reader null the call throws a TypeError into the catch block.
readDone(w, t) ==
    IF w.st.serial.reader # NoHandle THEN w ELSE readFailed(w, "TypeError", t)

\* Faulty variant: the command goes out without its line terminator.
sendData_bare(command) == command

\* command + '\n', the text handed to writer.write.
sendData(command) == command \o LF

\* send(command) up to writer.write.
send(w, command) ==
    IF sendGuard(w.st)
    THEN [w EXCEPT !.tasks = Spawn(@, Task("send", "write", command)),
                   !.written = Append(@, sendData(command))]
    ELSE showNotification(w, <<"Arduino tidak terhubung">>, "error")

sendResult(st) == IF sendGuard(st) THEN "pending" ELSE "false"

\* Faulty variant: the failed command is written again.
sendFailed_retries(w, command, t) ==
    [w EXCEPT !.st = Logger_log(@, <<"Gagal mengirim command: ", "NetworkError">>, "error", t),
              !.tasks = Spawn(@, Task("send", "write", command)),
              !.written = Append(@, command \o LF)]

\* The catch block of send().
sendFailed(w, command, t) ==
    disconnect([w EXCEPT !.st = Logger_log(@, <<"Gagal mengirim command: ", "NetworkError">>,
                                           "error", t)], t)

\* UI.sendCommand(command) for a command that draws no random number.
sendCommand(w, command, t) ==
    IF w.st.serial.isConnected THEN send(w, command)
    ELSE showNotification([w EXCEPT !.st = simulateCommand(@, command, 0, t)],
                          <<"Command \"", command, "\" dieksekusi (simulasi)">>, "info")

(***************************************************************************)
(* The session's specification: the user connects, sends and disconnects,  *)
(* the device delivers chunks, ends the stream or fails, and every await   *)
(* resolves or rejects.  lastOp records what the handler returned, showed  *)
(* and wrote.                                                              *)
(***************************************************************************)
MaxSerialTime == 7

SerialChunks == {LineOpen \o LF, LineMessage \o LF}

SerialCommands == {BUKA}

\* The world the running handler starts from.
World == [st |-> state, tasks |-> tasks, notified |-> <<>>, written |-> <<>>]

\* The world of a call resumed from the given await.
Resumed(task) == [World EXCEPT !.tasks = Finish(@, task)]

\* A handler started by the user, the device or a timer: the clock moves on.
Tick == now < MaxSerialTime /\ now' = now + 1

\* A continuation the platform owes: it runs however late it is.
Settle == now' = IF now < MaxSerialTime THEN now + 1 ELSE now

Outcome(w, op, arg, result) ==
    /\ state' = w.st
    /\ tasks' = w.tasks
    /\ lastOp' = [op |-> op, arg |-> arg, result |-> result,
                  notified |-> w.notified, written |-> w.written]

\* SerialManager.connect() is called.
SessionConnect(supported) ==
    /\ Tick
    /\ Outcome(connect(World, supported, now), "connect",
               IF supported THEN <<"supported">> ELSE <<"unsupported">>,
               connectResult(state, supported))

\* navigator.serial.requestPort() resolves: connect() goes on to port.open.
SessionPortGranted ==
    /\ BagIn(Task("connect", "requestPort", <<>>), tasks)
    /\ Tick
    /\ LET w == Resumed(Task("connect", "requestPort", <<>>))
       IN  Outcome([w EXCEPT !.st = connectGotPort(@),
                             !.tasks = Spawn(@, Task("connect", "open", <<>>))],
                   "connect.requestPort", <<"resolved">>, "pending")

\* navigator.serial.requestPort() rejects.
SessionPortDenied(name) ==
    /\ BagIn(Task("connect", "requestPort", <<>>), tasks)
    /\ Tick
    /\ Outcome(handleConnectionError(Resumed(Task("connect", "requestPort", <<>>)), name, now),
               "connect.requestPort", <<name>>, "false")

\* port.open() resolves.
SessionOpened ==
    /\ BagIn(Task("connect", "open", <<>>), tasks)
    /\ Tick
    /\ Outcome(connectEstablished(Resumed(Task("connect", "open", <<>>)), now),
               "connect.open", <<"resolved">>, "true")

\* port.open() rejects.
SessionOpenFailed(name) ==
    /\ BagIn(Task("connect", "open", <<>>), tasks)
    /\ Tick
    /\ Outcome(handleConnectionError(Resumed(Task("connect", "open", <<>>)), name, now),
               "connect.open", <<name>>, "false")

\* reader.read() resolves with a chunk.
SessionRead(chunk) ==
    /\ BagIn(readTask, tasks)
    /\ Tick
    /\ Outcome(readValue(Resumed(readTask), chunk, now), "startReading.read", chunk, "value")

\* reader.read() resolves with done: the device's stream has ended.
SessionReadEnded ==
    /\ BagIn(readTask, tasks)
    /\ Tick
    /\ Outcome(readDone(Resumed(readTask), now), "startReading.read", <<>>, "done")

\* reader.read() rejects.
SessionReadFailed(name) ==
    /\ BagIn(readTask, tasks)
    /\ Tick
    /\ Outcome(readFailed(Resumed(readTask), name, now), "startReading.read", <<name>>, "error")

\* The read loop resumes with the done that reader.cancel() settled its
\* read with.
SessionReadCancelled ==
    /\ BagIn(doneTask, tasks)
    /\ Settle
    /\ Outcome(readDone(Resumed(doneTask), now), "startReading.read", <<>>, "cancelled")

\* UI.sendCommand(command) is called.
SessionSendCommand(command) ==
    /\ Tick
    /\ Outcome(sendCommand(World, command, now), "sendCommand", command,
               IF state.serial.isConnected THEN sendResult(state) ELSE "simulated")

\* The timer of connect() fires: send('STATUS').
SessionTimerStatus ==
    /\ BagIn(statusTimer, tasks)
    /\ Tick
    /\ Outcome(send(Resumed(statusTimer), STATUS), "send", STATUS, sendResult(state))

\* writer.write() resolves: send() logs the command and returns true.
SessionWritten(command) ==
    /\ BagIn(Task("send", "write", command), tasks)
    /\ Tick
    /\ LET w == Resumed(Task("send", "write", command))
       IN  Outcome([w EXCEPT !.st = sendWritten(@, command, now)],
                   "send.write", command, "true")

\* writer.write() rejects.
SessionWriteFailed(command) ==
    /\ BagIn(Task("send", "write", command), tasks)
    /\ Tick
    /\ Outcome(sendFailed(Resumed(Task("send", "write", command)), command, now),
               "send.write", command, "false")

\* SerialManager.disconnect() is called (the Disconnect button, Ctrl+X, the
\* public disconnectArduino).
SessionDisconnect ==
    /\ Tick
    /\ Outcome(disconnect(World, now), "disconnect", <<>>,
               IF disconnectGuard(state) THEN "started" ELSE "ignored")

\* An await of disconnect() settles; cancel() settles after the reads it
\* has ended are resumed.
SessionDisconnectSettled(task, ok) ==
    /\ BagIn(task, tasks)
    /\ task.fn = "disconnect"
    /\ task.at = "cancel" => ~BagIn(doneTask, tasks)
    /\ Settle
    /\ Outcome(disconnectResumed(Resumed(task), task, ok, now), "disconnect.settled",
               Append(task.arg, task.at), IF ok THEN "resolved" ELSE "rejected")

SessionDisconnectSettles ==
    \E task \in BagToSet(tasks) : \E ok \in BOOLEAN : SessionDisconnectSettled(task, ok)

NextSerial ==
    \/ \E supported \in BOOLEAN : SessionConnect(supported)
    \/ SessionPortGranted
    \/ \E name \in RequestPortErrors : SessionPortDenied(name)
    \/ SessionOpened
    \/ \E name \in OpenErrors : SessionOpenFailed(name)
    \/ \E chunk \in SerialChunks : SessionRead(chunk)
    \/ SessionReadEnded
    \/ \E name \in ReadErrors : SessionReadFailed(name)
    \/ SessionReadCancelled
    \/ \E command \in SerialCommands : SessionSendCommand(command)
    \/ SessionTimerStatus
    \/ \E command \in SerialCommands \cup {STATUS} : SessionWritten(command)
    \/ \E command \in SerialCommands \cup {STATUS} : SessionWriteFailed(command)
    \/ SessionDisconnect
    \/ SessionDisconnectSettles

SpecSerial == Init /\ [][NextSerial]_vars

\* The platform settles every promise disconnect() awaits, and resumes the
\* read loop whose read it has settled.
SpecSerialLive ==
    /\ Init
    /\ [][NextSerial]_vars
    /\ WF_vars(SessionReadCancelled)
    /\ WF_vars(SessionDisconnectSettles)

(***************************************************************************)
(* The transport session                                                   *)
(***************************************************************************)
Connected(st) == st.serial.isConnected

Connecting(st) == st.serial.isConnecting

Disconnected(st) == ~st.serial.isConnected /\ ~st.serial.isConnecting

\* C21: the session follows Disconnected -> Connecting -> Connected ->
\* Disconnected: isConnected and isConnecting are never both true, a step
\* that makes isConnected true starts with isConnecting true, and connect()
\* called while connecting or connected returns false and leaves
\* state.serial as it is.
C21_SessionStateMachine ==
    /\ [](~(Connected(state) /\ Connecting(state)))
    /\ [][(Connected(state') /\ ~Connected(state)) => Connecting(state)]_vars
    /\ [][(lastOp'.op = "connect" /\ ~Disconnected(state))
            => (lastOp'.result = "false" /\ state'.serial = state.serial)]_vars

\* The read loop was resumed with done, by the device or by cancel().
ReadSawDone == lastOp.op = "startReading.read" /\ lastOp.result \in {"done", "cancelled"}

\* C22: when the read loop sees done while the session is Connected, the
\* loop ends and the session becomes Disconnected (isConnected false).
C22_EndOfStreamDisconnects == (ReadSawDone /\ Connected(state)) ~> ~Connected(state)

\* A read has failed with an error other than InterruptedError.
ReadBroke ==
    /\ lastOp.op = "startReading.read"
    /\ lastOp.result = "error"
    /\ lastOp.arg # <<"InterruptedError">>

\* The log entries the step has added, newest first.
NewLogs == SubSeq(state'.db.logs, 1, Len(state'.db.logs) - Len(state.db.logs))

ReadErrorLogged(logs) ==
    \E i \in 1..Len(logs) :
        logs[i].type = "error" /\ Head(logs[i].message) = "Error membaca data serial: "

\* C23: when a read fails with an error other than the cancellation error
\* while the session is Connected, the step logs the error, and from then on
\* the session reaches Disconnected (isConnected and isConnecting false)
\* with no call by the user.
C23_ReadErrorTearsDown ==
    /\ [][(ReadBroke' /\ Connected(state)) => ReadErrorLogged(NewLogs)]_vars
    /\ (ReadBroke /\ Connected(state)) ~> Disconnected(state)

\* Connected, a read failed, and disconnect() has run to its end.
C23_Witness ==
    /\ lastOp.op = "disconnect.settled"
    /\ Disconnected(state)
    /\ ReadErrorLogged(state.db.logs)
    /\ \A i \in 1..Len(state.db.logs) : Head(state.db.logs[i].message) # "Tong dibuka (simulasi)"
    /\ Len(SelectSeq(state.db.logs, LAMBDA e : e.message = <<"Memutuskan koneksi Arduino...">>)) = 1

(***************************************************************************)
(* The serial handler of style.js: connectArduino, readSerialData,         *)
(* sendSerialCommand and disconnectArduino over the module's variables     *)
(* serialPort, reader, writer, isConnecting and window.isConnected.        *)
(***************************************************************************)
\* showNotification(message, type) of the page script.
Legacy_notify(w, message, type) ==
    [w EXCEPT !.notified = Append(@, [message |-> message, type |-> type])]

Legacy_log(w, message, type, t) == [w EXCEPT !.st = addLog(@, message, type, t)]

\* showNotification and addLog with one text.
Legacy_say(w, message, type, t) ==
    Legacy_log(Legacy_notify(w, message, type), message, type, t)

legacyReadTask == Task("readSerialData", "read", <<>>)

legacyDoneTask == Task("readSerialData", "done", <<>>)

\* connectArduino() up to its first await.
connectArduino(w, supported, t) ==
    IF ~supported
    THEN Legacy_log(Legacy_notify(w,
             <<"Browser tidak mendukung Web Serial API. Gunakan Chrome/Edge versi terbaru.">>,
             "error"),
             <<"Web Serial API tidak didukung">>, "error", t)
    ELSE IF w.st.isConnecting
    THEN Legacy_notify(w, <<"Sedang mencoba menghubungkan...">>, "warning")
    ELSE LET w1 == Legacy_notify([w EXCEPT !.st.isConnecting = TRUE],
                                 <<"Mencoba menghubungkan ke Arduino...">>, "info")
             w2 == Legacy_log(w1, <<"Memulai koneksi Arduino">>, "info", t)
         IN  [w2 EXCEPT !.tasks = Spawn(@, Task("connectArduino", "requestPort", <<>>))]

\* connectArduino() after serialPort.open() resolved.
connectArduinoOpened(w, t) ==
    LET w1 == [w EXCEPT !.st.reader = textReader,
                        !.st.writer = textWriter,
                        !.st.isConnected = TRUE,
                        !.st.isConnecting = FALSE]
        w2 == Legacy_notify(w1, <<"Arduino terhubung! (", "115200", " baud)">>, "success")
        w3 == Legacy_log(w2, <<"Arduino terhubung di ", "115200", " baud">>, "success", t)
    IN  [w3 EXCEPT !.tasks = Spawn(Spawn(@, legacyReadTask), statusTimer)]

\* The catch block of connectArduino().
connectArduinoFailed(w, name, t) ==
    LET message == IF name = "NotFoundError" THEN <<"Tidak ada perangkat serial ditemukan">>
                   ELSE IF name = "SecurityError" THEN <<"Izin akses serial ditolak">>
                   ELSE <<"Gagal menghubungkan: ", name>>
        w1 == Legacy_say([w EXCEPT !.st.isConnecting = FALSE], message, "error", t)
    IN  [w1 EXCEPT !.st.isConnected = FALSE]

\* reader.cancel() settles every pending read with done.
Legacy_cancelReads(ts) ==
    LET n == CopiesIn(legacyReadTask, ts)
    IN  (ts (-) CopiesOf(legacyReadTask, n)) (+) CopiesOf(legacyDoneTask, n)

\* The callback readSerialData chains on disconnectArduino():
\* setTimeout(connectArduino, 1000).
Legacy_then(w, then) ==
    IF then = <<"then">>
    THEN [w EXCEPT !.tasks = Spawn(@, Task("timer", "connectArduino", <<>>))]
    ELSE w

\* disconnectArduino() after its awaits: the flag, the notification, the log.
disconnectArduinoEnd(w, then, t) ==
    Legacy_then(Legacy_say([w EXCEPT !.st.isConnected = FALSE],
                           <<"Arduino terputus">>, "warning", t), then)

\* The catch block of disconnectArduino().
disconnectArduinoCaught(w, then, t) ==
    Legacy_then(Legacy_say(w, <<"Error memutuskan koneksi: ", "NetworkError">>, "error", t),
                then)

\* disconnectArduino() from the release of the writer on.
disconnectArduinoPort(w, then, t) ==
    LET w1 == [w EXCEPT !.st.writer = NoHandle]
    IN  IF w1.st.serialPort # NoHandle
        THEN [w1 EXCEPT !.tasks = Spawn(@, Task("disconnectArduino", "close", then))]
        ELSE disconnectArduinoEnd(w1, then, t)

\* disconnectArduino() up to its first await, or to its end.
disconnectArduino(w, then, t) ==
    IF w.st.reader # NoHandle
    THEN [w EXCEPT !.tasks = Spawn(Legacy_cancelReads(@),
                                   Task("disconnectArduino", "cancel", then))]
    ELSE disconnectArduinoPort(w, then, t)

\* disconnectArduino() resumed after an await settled.
disconnectArduinoResumed(w, task, ok, t) ==
    IF ~ok THEN disconnectArduinoCaught(w, task.arg, t)
    ELSE IF task.at = "cancel"
    THEN disconnectArduinoPort([w EXCEPT !.st.reader = NoHandle], task.arg, t)
    ELSE disconnectArduinoEnd([w EXCEPT !.st.serialPort = NoHandle], task.arg, t)

\* The catch block of readSerialData(): the error is shown and logged and
\* the reconnect timer is armed.
readSerialDataFailed(w, name, t) ==
    IF name = "InterruptedError" THEN w
    ELSE [Legacy_say(w, <<"Error membaca data serial: ", name>>, "error", t)
             EXCEPT !.tasks = Spawn(@, Task("timer", "reconnect", <<>>))]

\* readSerialData() resumed with a chunk; reader.read() on a reader set to
\* null throws a TypeError.
readSerialDataValue(w, chunk, t) ==
    LET w1 == [w EXCEPT !.st = IF chunk # <<>> THEN processSerialData(@, chunk, t) ELSE @]
    IN  IF w1.st.reader # NoHandle
        THEN [w1 EXCEPT !.tasks = Spawn(@, legacyReadTask)]
        ELSE readSerialDataFailed(w1, "TypeError", t)

\* readSerialData() resumed with done: reader.releaseLock() and break.
readSerialDataDone(w, t) ==
    IF w.st.reader # NoHandle THEN w ELSE readSerialDataFailed(w, "TypeError", t)

\* The 3000 ms timer of readSerialData's catch block.
reconnectTimer(w, t) ==
    IF w.st.isConnected
    THEN disconnectArduino(Legacy_log(w, <<"Mencoba reconnect...">>, "info", t), <<"then">>, t)
    ELSE w

\* sendSerialCommand(command) up to writer.write.
sendSerialCommand(w, command) ==
    IF ~w.st.isConnected \/ w.st.writer = NoHandle
    THEN Legacy_notify(w, <<"Arduino tidak terhubung">>, "error")
    ELSE [w EXCEPT !.tasks = Spawn(@, Task("sendSerialCommand", "write", command)),
                   !.written = Append(@, command \o LF)]

\* The catch block of sendSerialCommand().
sendSerialCommandFailed(w, t) ==
    disconnectArduino(Legacy_say(w, <<"Gagal mengirim command: ", "NetworkError">>, "error", t),
                      <<>>, t)

\* The module's variables as the script leaves them, over the page's db.
LegacySession_loaded ==
    [db |-> Legacy_loaded.db,
     logs |-> <<>>,
     history |-> <<>>,
     serialPort |-> NoHandle,
     reader |-> NoHandle,
     writer |-> NoHandle,
     isConnecting |-> FALSE,
     isConnected |-> FALSE]

LegacySessionInit ==
    /\ state = LegacySession_loaded
    /\ tasks = EmptyBag
    /\ now = 1
    /\ lastOp = [op |-> "init", arg |-> <<>>]

MaxLegacySessionTime == 7

LegacySessionChunks == {LineOpen \o LF}

LegacyTick == now < MaxLegacySessionTime /\ now' = now + 1

\* Timers and settled promises run however late they are.
LegacySettle == now' = IF now < MaxLegacySessionTime THEN now + 1 ELSE now

\* window.connectArduino() is called.
LegacyConnect(supported) ==
    /\ LegacyTick
    /\ Outcome(connectArduino(World, supported, now), "connectArduino",
               IF supported THEN <<"supported">> ELSE <<"unsupported">>, "called")

\* navigator.serial.requestPort() resolves.
LegacyPortGranted ==
    /\ BagIn(Task("connectArduino", "requestPort", <<>>), tasks)
    /\ LegacyTick
    /\ LET w == Resumed(Task("connectArduino", "requestPort", <<>>))
       IN  Outcome([w EXCEPT !.st.serialPort = serialPort,
                             !.tasks = Spawn(@, Task("connectArduino", "open", <<>>))],
                   "connectArduino.requestPort", <<"resolved">>, "pending")

\* navigator.serial.requestPort() rejects.
LegacyPortDenied(name) ==
    /\ BagIn(Task("connectArduino", "requestPort", <<>>), tasks)
    /\ LegacyTick
    /\ Outcome(connectArduinoFailed(Resumed(Task("connectArduino", "requestPort", <<>>)),
                                    name, now),
               "connectArduino.requestPort", <<name>>, "failed")

\* serialPort.open() resolves.
LegacyOpened ==
    /\ BagIn(Task("connectArduino", "open", <<>>), tasks)
    /\ LegacyTick
    /\ Outcome(connectArduinoOpened(Resumed(Task("connectArduino", "open", <<>>)), now),
               "connectArduino.open", <<"resolved">>, "connected")

\* serialPort.open() rejects.
LegacyOpenFailed(name) ==
    /\ BagIn(Task("connectArduino", "open", <<>>), tasks)
    /\ LegacyTick
    /\ Outcome(connectArduinoFailed(Resumed(Task("connectArduino", "open", <<>>)), name, now),
               "connectArduino.open", <<name>>, "failed")

\* reader.read() resolves with a chunk.
LegacySessionRead(chunk) ==
    /\ BagIn(legacyReadTask, tasks)
    /\ LegacyTick
    /\ Outcome(readSerialDataValue(Resumed(legacyReadTask), chunk, now),
               "readSerialData.read", chunk, "value")

\* reader.read() resolves with done: the device's stream has ended.
LegacyReadEnded ==
    /\ BagIn(legacyReadTask, tasks)
    /\ LegacyTick
    /\ Outcome(readSerialDataDone(Resumed(legacyReadTask), now),
               "readSerialData.read", <<>>, "done")

\* reader.read() rejects.
LegacyReadFailed(name) ==
    /\ BagIn(legacyReadTask, tasks)
    /\ LegacyTick
    /\ Outcome(readSerialDataFailed(Resumed(legacyReadTask), name, now),
               "readSerialData.read", <<name>>, "error")

\* The loop resumes with the done reader.cancel() settled its read with.
LegacyReadCancelled ==
    /\ BagIn(legacyDoneTask, tasks)
    /\ LegacySettle
    /\ Outcome(readSerialDataDone(Resumed(legacyDoneTask), now),
               "readSerialData.read", <<>>, "cancelled")

\* The reconnect timer of readSerialData fires.
LegacyReconnectTimer ==
    /\ BagIn(Task("timer", "reconnect", <<>>), tasks)
    /\ LegacySettle
    /\ Outcome(reconnectTimer(Resumed(Task("timer", "reconnect", <<>>)), now),
               "timer.reconnect", <<>>, "fired")

\* The timer chained on the reconnect's disconnectArduino() fires.
LegacyConnectTimer ==
    /\ BagIn(Task("timer", "connectArduino", <<>>), tasks)
    /\ LegacySettle
    /\ Outcome(connectArduino(Resumed(Task("timer", "connectArduino", <<>>)), TRUE, now),
               "timer.connectArduino", <<>>, "fired")

\* The timer of connectArduino fires: sendSerialCommand('STATUS'), and the
\* log entry that follows the call.
LegacyStatusTimer ==
    /\ BagIn(statusTimer, tasks)
    /\ LegacySettle
    /\ Outcome(Legacy_log(sendSerialCommand(Resumed(statusTimer), STATUS),
                          <<"Mengirim command STATUS ke Arduino">>, "info", now),
               "timer.sendStatus", STATUS, "fired")

\* writer.write() resolves.
LegacyWritten(command) ==
    /\ BagIn(Task("sendSerialCommand", "write", command), tasks)
    /\ LegacyTick
    /\ Outcome(Legacy_log(Resumed(Task("sendSerialCommand", "write", command)),
                          <<"Command dikirim ke Arduino: ">> \o command, "info", now),
               "sendSerialCommand.write", command, "resolved")

\* writer.write() rejects.
LegacyWriteFailed(command) ==
    /\ BagIn(Task("sendSerialCommand", "write", command), tasks)
    /\ LegacyTick
    /\ Outcome(sendSerialCommandFailed(Resumed(Task("sendSerialCommand", "write", command)),
                                       now),
               "sendSerialCommand.write", command, "rejected")

\* window.disconnectArduino() is called.
LegacyDisconnect ==
    /\ LegacyTick
    /\ Outcome(disconnectArduino(World, <<>>, now), "disconnectArduino", <<>>, "called")

\* An await of disconnectArduino() settles; cancel() settles after the reads
\* it has ended are resumed.
LegacyDisconnectSettled(task, ok) ==
    /\ BagIn(task, tasks)
    /\ task.fn = "disconnectArduino"
    /\ task.at = "cancel" => ~BagIn(legacyDoneTask, tasks)
    /\ LegacySettle
    /\ Outcome(disconnectArduinoResumed(Resumed(task), task, ok, now),
               "disconnectArduino.settled", <<task.at>>,
               IF ok THEN "resolved" ELSE "rejected")

LegacyDisconnectSettles ==
    \E task \in BagToSet(tasks) : \E ok \in BOOLEAN : LegacyDisconnectSettled(task, ok)

NextLegacySession ==
    \/ \E supported \in BOOLEAN : LegacyConnect(supported)
    \/ LegacyPortGranted
    \/ LegacyPortDenied("NotFoundError")
    \/ LegacyOpened
    \/ LegacyOpenFailed("NetworkError")
    \/ \E chunk \in LegacySessionChunks : LegacySessionRead(chunk)
    \/ LegacyReadEnded
    \/ \E name \in ReadErrors : LegacyReadFailed(name)
    \/ LegacyReadCancelled
    \/ LegacyReconnectTimer
    \/ LegacyConnectTimer
    \/ LegacyStatusTimer
    \/ LegacyWritten(STATUS)
    \/ LegacyWriteFailed(STATUS)
    \/ LegacyDisconnect
    \/ LegacyDisconnectSettles

SpecLegacySession == LegacySessionInit /\ [][NextLegacySession]_vars

\* C24: disconnect is idempotent: called when the session is neither
\* Connected nor Connecting it changes no state, suspends nothing and shows
\* no notification, and a call that has run to its end leaves a session in
\* which the next call is such a call (style.js, disconnectArduino).
C24_DisconnectIdempotent ==
    /\ [][(lastOp'.op = "disconnectArduino" /\ ~state.isConnected /\ ~state.isConnecting)
            => (state' = state /\ tasks' = tasks /\ lastOp'.notified = <<>>)]_vars
    /\ [][(lastOp'.op \in {"disconnectArduino", "disconnectArduino.settled"}
             /\ lastOp'.notified # <<>>
             /\ Head(lastOp'.notified[1].message) = "Arduino terputus")
            => (~state'.isConnected /\ ~state'.isConnecting)]_vars

AllAwaits == <<"cancel", "close", "portClose">>

Released(st) ==
    /\ st.serial.reader = NoHandle
    /\ st.serial.writer = NoHandle
    /\ st.serial.port = NoHandle

SendCalled ==
    \/ lastOp'.op = "send"
    \/ lastOp'.op = "sendCommand" /\ Connected(state)

WriteBroke == lastOp.op = "send.write" /\ lastOp.result = "false"

WriteErrorLogged(logs) ==
    \E i \in 1..Len(logs) :
        logs[i].type = "error" /\ Head(logs[i].message) = "Gagal mengirim command: "

\* C27: when writer.write rejects, send() logs the failure and returns
\* false, no write of the command is issued again (nothing is handed to the
\* device and one suspended write fewer remains), and from then on the
\* session reaches Disconnected.
C27_WriteErrorTearsDown ==
    /\ [][WriteBroke' =>
            /\ WriteErrorLogged(NewLogs)
            /\ lastOp'.written = <<>>
            /\ \A command \in Commands :
                  CopiesIn(Task("send", "write", command), tasks')
                      = CopiesIn(Task("send", "write", command), tasks)
                          - (IF command = lastOp'.arg THEN 1 ELSE 0)]_vars
    /\ WriteBroke ~> Disconnected(state)

\* A write failed while connected and disconnect() has run to its end.
C27_Witness ==
    /\ lastOp.op = "disconnect.settled"
    /\ Disconnected(state)
    /\ WriteErrorLogged(state.db.logs)
    /\ \A command \in Commands : ~BagIn(Task("send", "write", command), tasks)
    /\ Len(SelectSeq(state.db.logs, LAMBDA e : e.message = <<"Memutuskan koneksi Arduino...">>)) = 1

\* The step ends a connect() in failure: no serial support, the port
\* request rejected, or open() rejected.
ConnectFailed ==
    \/ lastOp'.op = "connect" /\ lastOp'.arg = <<"unsupported">> /\ Disconnected(state)
    \/ lastOp'.op \in {"connect.requestPort", "connect.open"} /\ lastOp'.result = "false"

ConnectTasks ==
    {Task("connect", "requestPort", <<>>), Task("connect", "open", <<>>),
     readTask, statusTimer}

\* C28: a failed connect leaves the session Disconnected (isConnecting and
\* isConnected false), starts no read loop, arms no timer and suspends no
\* further connection attempt.
C28_FailedConnectDisconnected ==
    [][ConnectFailed =>
         /\ Disconnected(state')
         /\ \A task \in ConnectTasks : CopiesIn(task, tasks') <= CopiesIn(task, tasks)]_vars

\* The step resumed the read loop with a chunk.
ChunkRead == lastOp'.op = "startReading.read" /\ lastOp'.result = "value"

\* C29: no two chunks are processed at once: in the step that resumes the
\* read loop with a chunk, the batch is folded into state.db and the UI
\* update is scheduled, and only then is the loop condition tested on the
\* state so reached and the one next read issued.
C29_ChunkProcessedBeforeNextRead ==
    [][ChunkRead =>
         LET updates == parsedChunk[lastOp'.arg]
         IN  /\ Device(state') = Device(batchUpdate(state, updates, now))
             /\ batchUpdateResult(updates) =>
                   ("all" \in state'.ui.updateQueue /\ state'.ui.pendingAnimationFrame)
             /\ CopiesIn(readTask, tasks')
                   = CopiesIn(readTask, tasks) - 1
                       + (IF readingGuard(state') THEN 1 ELSE 0)]_vars

\* A full report has been applied and the loop is suspended in its next read.
C29_Witness ==
    /\ lastOp.op = "startReading.read"
    /\ lastOp.result = "value"
    /\ lastOp.arg = LineOpen \o LF
    /\ state.db.status = BUKA
    /\ state.db.capacity = 45
    /\ "all" \in state.ui.updateQueue
    /\ CopiesIn(readTask, tasks) = 1

(***************************************************************************)
(* The page's refresh: the interval timers of startUpdateScheduler and the *)
(* simulated commands ask for updates, the animation frame serves them.    *)
(***************************************************************************)
\* The update methods updateAll runs.
AllViews == {"capacity", "status", "sensors", "stats", "connection", "alerts", "time"}

\* The types the interval timers ask for.
TimerViews == {"time", "alerts"}

\* The update methods processUpdateQueue runs for a queue: updateAll when
\* 'all' is queued, update<Type> for every queued type otherwise.
refreshed(queue) == IF "all" \in queue THEN AllViews ELSE queue

MaxUITime == 6

UICommands == {BUKA, TUTUP}

UITick == now < MaxUITime /\ now' = now + 1

\* An interval timer of startUpdateScheduler fires: scheduleUpdate(type).
UIInterval(type) ==
    /\ UITick
    /\ state' = scheduleUpdate(state, type)
    /\ tasks' = tasks
    /\ lastOp' = [op |-> "scheduleUpdate", arg |-> <<type>>, refreshed |-> {}]

\* UI.sendCommand(command) with no device connected: simulateCommand ends in
\* scheduleUpdate('all').
UICommand(command) ==
    /\ UITick
    /\ state' = sendCommand(World, command, now).st
    /\ tasks' = sendCommand(World, command, now).tasks
    /\ lastOp' = [op |-> "sendCommand", arg |-> command, refreshed |-> {}]

\* The callback handed to requestAnimationFrame runs: processUpdateQueue,
\* then pendingAnimationFrame = null.
UIFrame ==
    /\ state.ui.frames > 0
    /\ UITick
    /\ state' = [processUpdateQueue(state, now) EXCEPT
                    !.ui.pendingAnimationFrame = FALSE,
                    !.ui.frames = @ - 1]
    /\ tasks' = tasks
    /\ lastOp' = [op |-> "animationFrame", arg |-> <<>>,
                  refreshed |-> refreshed(state.ui.updateQueue)]

NextUI ==
    \/ \E type \in TimerViews : UIInterval(type)
    \/ \E command \in UICommands : UICommand(command)
    \/ UIFrame

SpecUI == Init /\ [][NextUI]_vars

\* The type the step has asked an update for, "" when it asked for none.
Requested ==
    IF lastOp'.op = "scheduleUpdate" THEN lastOp'.arg[1]
    ELSE IF lastOp'.op = "sendCommand" THEN "all"
    ELSE ""

\* C30: refreshes are single-flight: at most one animation frame is pending
\* however many scheduleUpdate calls occur, a queued type always has the
\* frame pending, a call adds its type to the queue and asks for a frame
\* only when none is pending, the frame runs the update of every queued
\* type (all of them for 'all'), and after it the queue is empty and no
\* frame is pending, so that the next call asks for a new one.
C30_SingleFlightRefresh ==
    /\ [](/\ state.ui.frames \in {0, 1}
          /\ state.ui.pendingAnimationFrame <=> state.ui.frames = 1
          /\ state.ui.updateQueue # {} => state.ui.pendingAnimationFrame)
    /\ [][Requested # "" =>
            /\ state'.ui.updateQueue = state.ui.updateQueue \cup {Requested}
            /\ state'.ui.frames = 1]_vars
    /\ [][lastOp'.op = "animationFrame" =>
            /\ \A type \in state.ui.updateQueue :
                  IF type = "all" THEN lastOp'.refreshed = AllViews
                  ELSE type \in lastOp'.refreshed
            /\ state'.ui.updateQueue = {}
            /\ state'.ui.frames = 0
            /\ ~state'.ui.pendingAnimationFrame]_vars

\* Two types were asked for before one frame, and the one frame has served
\* both and left nothing queued.
C30_Witness ==
    /\ lastOp.op = "animationFrame"
    /\ lastOp.refreshed = TimerViews
    /\ state.ui.updateQueue = {}
    /\ state.ui.frames = 0
    /\ ~state.ui.pendingAnimationFrame

(***************************************************************************)
(* The page's timers: the three intervals of startUpdateScheduler and the  *)
(* auto-refresh interval that toggleAutoRefresh keeps while the setting is *)
(* on.                                                                     *)
(***************************************************************************)
\* The change handler of #autoRefreshToggle: the setting is stored and
\* toggleAutoRefresh clears the old interval and sets a new one when the
\* setting is on, so an interval runs exactly while settings.autoRefresh.
autoRefreshChanged(st, checked) ==
    LET st1 == [st EXCEPT !.db.settings.autoRefresh = checked]
    IN  StorageSet(st1, "settings", st1.db.settings)

toggleAutoRefresh(st) == st.db.settings.autoRefresh

\* UI.refreshData: sendCommand('STATUS'), then the log entry.  changeAmount
\* is the move generateSimulatedData draws when no device is connected.
refreshData(w, changeAmount, t) ==
    LET w1 == IF w.st.serial.isConnected THEN send(w, STATUS)
              ELSE showNotification(
                       [w EXCEPT !.st = simulateCommand(@, STATUS, changeAmount, t)],
                       <<"Command \"", STATUS, "\" dieksekusi (simulasi)">>, "info")
    IN  [w1 EXCEPT !.st = Logger_log(@, <<"Data direfresh">>, "info", t)]

MaxTimerTime == 5

TimerTick == now < MaxTimerTime /\ now' = now + 1

\* What a step of the timers' specification leaves: periodic tells the
\* callbacks of setInterval from the handlers of the user's events.
TimerOutcome(st, op, arg, periodic) ==
    /\ state' = st
    /\ tasks' = tasks
    /\ lastOp' = [op |-> op, arg |-> arg, periodic |-> periodic]

\* The 1 s and the 30 s interval: scheduleUpdate('time' | 'alerts').
TimerInterval(type) ==
    /\ TimerTick
    /\ TimerOutcome(scheduleUpdate(state, type), "scheduleUpdate", <<type>>, TRUE)

\* The 60 s interval: updateChart redraws the chart from usageHistory.daily.
TimerChart ==
    /\ TimerTick
    /\ TimerOutcome(state, "updateChart", <<>>, TRUE)

\* The auto-refresh interval: refreshData.
TimerAutoRefresh(changeAmount) ==
    /\ toggleAutoRefresh(state)
    /\ TimerTick
    /\ TimerOutcome(refreshData(World, changeAmount, now).st, "refreshData", <<>>, TRUE)

\* The user switches auto refresh on or off.
TimerToggle(checked) ==
    /\ TimerTick
    /\ TimerOutcome(autoRefreshChanged(state, checked), "autoRefreshToggle",
                    <<IF checked THEN "on" ELSE "off">>, FALSE)

\* The user clicks Buka or Tutup.
TimerCommand(command) ==
    /\ TimerTick
    /\ TimerOutcome(sendCommand(World, command, now).st, "sendCommand", command, FALSE)

\* The animation frame a scheduleUpdate asked for.
TimerFrame ==
    /\ state.ui.frames > 0
    /\ TimerTick
    /\ TimerOutcome([processUpdateQueue(state, now) EXCEPT
                        !.ui.pendingAnimationFrame = FALSE,
                        !.ui.frames = @ - 1],
                    "animationFrame", <<>>, FALSE)

NextTimers ==
    \/ \E type \in TimerViews : TimerInterval(type)
    \/ TimerChart
    \/ \E changeAmount \in ChangeAmounts : TimerAutoRefresh(changeAmount)
    \/ \E checked \in BOOLEAN : TimerToggle(checked)
    \/ \E command \in UICommands : TimerCommand(command)
    \/ TimerFrame

SpecTimers == Init /\ [][NextTimers]_vars

\* The device fields the periodic callbacks are said to leave alone.
DeviceFields(st) ==
    <<st.db.status, st.db.capacity, st.db.distance, st.db.dailyUsage, st.db.totalUsage>>

\* C31: no periodic timer callback (time refresh, alert check, chart
\* refresh, auto-poll) changes status, capacity, distance, dailyUsage or
\* totalUsage, in any connection state.
C31_TimersLeaveDevice ==
    [][lastOp'.periodic => DeviceFields(state') = DeviceFields(state)]_vars

\* The recorded samples a bucket has folded: those of the daily history
\* whose timestamp the bucket lists (the daily history holds every recorded
\* sample until it is first trimmed).
FoldedInto(bucket, daily) ==
    SelectSeq(daily, LAMBDA e : \E i \in 1..Len(bucket.timestamps) :
                                    bucket.timestamps[i] = e.timestamp)

RECURSIVE SumOfCapacities(_)
SumOfCapacities(samples) ==
    IF samples = <<>> THEN 0
    ELSE Head(samples).capacity + SumOfCapacities(Tail(samples))

CapacitiesOf(samples) == {samples[i].capacity : i \in 1..Len(samples)}

BucketCounts(bucket, samples) ==
    /\ bucket.count = Len(samples)
    /\ bucket.count = Len(bucket.timestamps)
    /\ bucket.total = SumOfCapacities(samples)

BucketMax(bucket, samples) ==
    /\ bucket.max \in CapacitiesOf(samples)
    /\ \A c \in CapacitiesOf(samples) : c <= bucket.max

BucketMin(bucket, samples) ==
    /\ bucket.min \in CapacitiesOf(samples)
    /\ \A c \in CapacitiesOf(samples) : bucket.min <= c

BucketsOf(st) ==
    {st.db.usageHistory.weekly[i].bucket : i \in 1..Len(st.db.usageHistory.weekly)}
    \cup {st.db.usageHistory.monthly[i].bucket : i \in 1..Len(st.db.usageHistory.monthly)}

\* C32: for every weekly and monthly bucket, count is the number of samples
\* folded into it and the length of its timestamps, total is the sum of
\* their capacities, max is the largest and min the smallest of them.
C32_BucketsSummarise ==
    \A bucket \in BucketsOf(state) :
        LET samples == FoldedInto(bucket, state.db.usageHistory.daily)
        IN  /\ BucketCounts(bucket, samples)
            /\ BucketMax(bucket, samples)
            /\ BucketMin(bucket, samples)

\* The legacy session is torn down: the flag is off and no handle is kept.
LegacyTornDown(st) ==
    /\ ~st.isConnected
    /\ st.reader = NoHandle
    /\ st.writer = NoHandle
    /\ st.serialPort = NoHandle

\* C33: in the legacy handler the recovery from a read error tears the
\* session down before it reconnects: when the timer chained on the
\* recovery's disconnectArduino() re-invokes connectArduino, also after
\* cancelling the reader or closing the port has thrown, window.isConnected
\* is false and reader, writer and port are cleared.
C33_TornDownBeforeReconnect ==
    [][lastOp'.op = "timer.connectArduino" => LegacyTornDown(state)]_vars

\* The messages of the entries the step has added to the legacy log (addLog
\* puts the newest entry first).
LegacyNewMessages ==
    LET n == Len(state'.logs) - Len(state.logs)
    IN  {state'.logs[i].message : i \in 1..n}

\* C34: in the legacy handler a full report with status BUKA that arrives
\* while db.status is not BUKA sets db.lastActivity to the time of the
\* report and logs the open event, and a full report with status TUTUP that
\* arrives while db.status is not TUTUP logs the close event.
C34_LegacyDoorEvents ==
    [][/\ (/\ lastOp'.op = "processSerialData"
           /\ lastOp'.arg = LineOpen \o LF
           /\ state.db.status # BUKA)
          => /\ state'.db.lastActivity = now
             /\ <<"Tong dibuka oleh Arduino">> \in LegacyNewMessages
       /\ (/\ lastOp'.op = "processSerialData"
           /\ lastOp'.arg = LineClosed \o LF
           /\ state.db.status # TUTUP)
          => <<"Tong ditutup oleh Arduino">> \in LegacyNewMessages]_vars

(***************************************************************************)
(* The page's load: DOMContentLoaded builds the application.  In this      *)
(* specification state is [instance, app]: whether the module's instance   *)
(* is set, and the module's state object; tasks holds the callbacks the    *)
(* page has registered (event listeners and intervals).                    *)
(***************************************************************************)
\* Storage.get(key, defaultValue).
StorageGet(st, key, defaultValue) ==
    IF key \in DOMAIN st.storage THEN st.storage[key] ELSE defaultValue

\* The module's state object as the script's evaluation leaves it: db: null.
constructedState == [loadedState(0) EXCEPT !.db = Null, !.storage = <<>>]

\* The callbacks setupEventListeners hands to addEventListener for the door
\* buttons; every call registers fresh arrow functions.
doorListeners ==
    SetToBag({Task("listener", "click", BUKA), Task("listener", "click", TUTUP)})

\* The callbacks startUpdateScheduler hands to setInterval.
schedulerIntervals ==
    SetToBag({Task("interval", "scheduleUpdate", <<"time">>),
              Task("interval", "scheduleUpdate", <<"alerts">>),
              Task("interval", "updateChart", <<>>)})

\* UI.init: setupEventListeners, initChart, updateAll, startUpdateScheduler.
UI_init(pg, t) ==
    [pg EXCEPT !.tasks = @ (+) doorListeners (+) schedulerIntervals,
               !.app = updateAlerts(@, t)]

\* TongSampahApp.init: state.db is loaded or created, UI.init runs, the
\* auto-refresh interval is set when the setting is on, the first log entry
\* is written.
init(pg, t) ==
    LET db  == StorageGet(pg.app, "db",
                   [defaultDb(t) EXCEPT
                       !.settings = StorageGet(pg.app, "settings", defaultSettings),
                       !.logs = StorageGet(pg.app, "logs", <<>>),
                       !.usageHistory = StorageGet(pg.app, "history", @)])
        pg1 == UI_init([pg EXCEPT !.app.db = db], t)
    IN  [pg1 EXCEPT !.app = Logger_log(@, <<"Sistem monitoring tong sampah dimulai">>,
                                       "success", t)]

\* TongSampahApp.getInstance: the first call sets instance and runs init.
getInstance(pg, t) ==
    IF ~pg.instance THEN init([pg EXCEPT !.instance = TRUE], t) ELSE pg

\* The DOMContentLoaded listener: TongSampahApp.getInstance().init().
DOMContentLoaded(pg, t) == init(getInstance(pg, t), t)

\* A click on a door button: every listener registered for it runs.
RECURSIVE clicked(_, _, _, _)
clicked(app, command, listeners, t) ==
    IF listeners = 0 THEN app
    ELSE clicked(sendCommand([st |-> app, tasks |-> EmptyBag,
                              notified |-> <<>>, written |-> <<>>], command, t).st,
                 command, listeners - 1, t)

PageInit ==
    /\ state = [instance |-> FALSE, app |-> constructedState]
    /\ tasks = EmptyBag
    /\ now = 0
    /\ lastOp = [op |-> "script", arg |-> <<>>]

MaxPageTime == 5

PageTick == now < MaxPageTime /\ now' = now + 1

\* The document has been parsed: the DOMContentLoaded listener runs, once.
PageLoad ==
    /\ lastOp.op = "script"
    /\ PageTick
    /\ LET pg == DOMContentLoaded([instance |-> state.instance, app |-> state.app,
                                   tasks |-> tasks], now)
       IN  /\ state' = [instance |-> pg.instance, app |-> pg.app]
           /\ tasks' = pg.tasks
    /\ lastOp' = [op |-> "DOMContentLoaded", arg |-> <<>>]

\* The user clicks Buka or Tutup.
PageClick(command) ==
    /\ BagIn(Task("listener", "click", command), tasks)
    /\ PageTick
    /\ state' = [state EXCEPT !.app =
                    clicked(@, command, CopiesIn(Task("listener", "click", command), tasks),
                            now)]
    /\ tasks' = tasks
    /\ lastOp' = [op |-> "click", arg |-> command]

\* One of the registered intervals fires.
PageInterval(task) ==
    /\ BagIn(task, tasks)
    /\ task.fn = "interval"
    /\ PageTick
    /\ state' = [state EXCEPT !.app = IF task.at = "scheduleUpdate"
                                      THEN scheduleUpdate(@, task.arg[1])
                                      ELSE @]
    /\ tasks' = tasks
    /\ lastOp' = [op |-> "interval", arg |-> task.arg]

\* The animation frame a scheduleUpdate asked for.
PageFrame ==
    /\ lastOp.op # "script"
    /\ state.app.ui.frames > 0
    /\ PageTick
    /\ state' = [state EXCEPT !.app = [processUpdateQueue(@, now) EXCEPT
                                          !.ui.pendingAnimationFrame = FALSE,
                                          !.ui.frames = @ - 1]]
    /\ tasks' = tasks
    /\ lastOp' = [op |-> "animationFrame", arg |-> <<>>]

PageIntervals == \E task \in BagToSet(tasks) : PageInterval(task)

NextPage ==
    \/ PageLoad
    \/ \E command \in UICommands : PageClick(command)
    \/ PageIntervals
    \/ PageFrame

SpecPage == PageInit /\ [][NextPage]_vars

\* C35: the application is initialised once on page load: every event
\* listener and every interval is registered exactly once, and one click on
\* Buka with no device connected raises dailyUsage by 1.
C35_InitializedOnce ==
    /\ [](lastOp.op # "script" =>
            /\ state.instance
            /\ \A task \in BagToSet(doorListeners (+) schedulerIntervals) :
                  CopiesIn(task, tasks) = 1)
    /\ [][(lastOp'.op = "click" /\ lastOp'.arg = BUKA) =>
            state'.app.db.dailyUsage = state.app.db.dailyUsage + 1]_vars

\* A connect() call is suspended at one of its awaits.
ConnectPending(ts) ==
    BagIn(Task("connect", "requestPort", <<>>), ts) \/ BagIn(Task("connect", "open", <<>>), ts)

\* A disconnect() call is suspended at one of its awaits.
DisconnectPending(ts) == \E task \in BagToSet(ts) : task.fn = "disconnect"

\* C36: once a disconnect() invoked during Connecting has completed, the
\* connect() still in flight does not make the session Connected and starts
\* no read loop when its awaits settle: the session stays Disconnected until
\* connect is invoked again.
C36_DisconnectEndsConnect ==
    [][(/\ Disconnected(state)
        /\ ConnectPending(tasks)
        /\ ~DisconnectPending(tasks)
        /\ lastOp'.op \in {"connect.requestPort", "connect.open"})
       => (/\ Disconnected(state')
           /\ CopiesIn(readTask, tasks') = CopiesIn(readTask, tasks))]_vars

\* C37: whenever the session is Disconnected with no connect() or
\* disconnect() call in progress, port, reader and writer are null, also
\* after a connect that failed at any step and after a disconnect in which
\* cancel() or a close() has thrown.
C37_IdleSessionReleased ==
    (/\ Disconnected(state)
     /\ ~ConnectPending(tasks)
     /\ ~DisconnectPending(tasks))
    => Released(state)

\* The read loops of the legacy session that have not ended: each is
\* suspended at its read, pending or already settled with done by cancel().
LegacyReadLoops(ts) == CopiesIn(legacyReadTask, ts) + CopiesIn(legacyDoneTask, ts)

\* C38: at most one read loop is active at any time, for any interleaving of
\* connect, disconnect, end of stream and read errors: a new loop starts
\* only after every earlier one has ended.
C38_OneReadLoop == LegacyReadLoops(tasks) <= 1

(***************************************************************************)
(* A stream of lines delivered in two chunks: processData runs once for    *)
(* each chunk the reader hands over; lastOp.whole is what one processData  *)
(* of the undivided stream leaves.                                         *)
(***************************************************************************)
StreamDelivered(stream, k) ==
    /\ NoCallYet
    /\ state' = processData(processData(state, StreamHead(stream, k), now),
                            StreamTail(stream, k), now)
    /\ lastOp' = [op |-> "processData.chunks",
                  arg |-> <<StreamHead(stream, k), StreamTail(stream, k)>>,
                  whole |-> processData(state, stream, now)]
    /\ UNCHANGED <<tasks, now>>

NextStream == \E stream \in Streams : \E k \in 1..(Len(stream) - 1) : StreamDelivered(stream, k)

SpecStream == Init /\ [][NextStream]_vars

\* The messages of a log, newest first.
MessagesOf(logs) == [i \in 1..Len(logs) |-> logs[i].message]

\* C39: the device fields and the log reached after a stream of
\* newline-terminated lines do not depend on how the stream is divided into
\* chunks: delivered in two chunks, cut anywhere, the stream leaves what it
\* leaves delivered whole.
C39_ChunkingIndependent ==
    [][lastOp'.op = "processData.chunks" =>
        /\ DeviceFields(state') = DeviceFields(lastOp'.whole)
        /\ MessagesOf(state'.db.logs) = MessagesOf(lastOp'.whole.db.logs)]_vars

====
